---- MODULE Spec2Model ----
(***************************************************************************)
(* Content acquisition and audit pipeline of nmc_backend.                  *)
(*                                                                         *)
(* Specifications:                                                         *)
(*   NormSpec   the report normalizers (contentProcessor.normalizeGemini-  *)
(*              Result and auditService.normalizeResponse) applied, once   *)
(*              and twice, to every parsed reasoner output of a bounded    *)
(*              set;                                                       *)
(*   Spec       one request at a time through processContent (text, web-   *)
(*              page and YouTube inputs) or auditService.performAudit;     *)
(*   RetrySpec  one call of retryWithBackoff;                              *)
(*   TempSpec   concurrent requests that download media to temp files;     *)
(*   CallSpec   the external calls of one audit under their deadlines,     *)
(*              with a fair clock and fair timers;                         *)
(*   RouteSpec  one input from its entry point through classification,     *)
(*              language detection and translation to the reasoner call;   *)
(*   ValidSpec  the content validator applied to one text;                 *)
(*   WorkerSpec one operation that starts a helper process: the PDF text   *)
(*              pipeline with its OCR worker, or a headless-browser        *)
(*              scraper;                                                   *)
(*   HistorySpec the audit records of several users and their retrieval.   *)
(*                                                                         *)
(* Numbers that may be fractional (scores) are kept in hundredths: the     *)
(* JavaScript number 0.5 is 50, 95 is 9500.                                *)
(***************************************************************************)
EXTENDS Integers, Sequences, FiniteSets, TLC

VARIABLES
    \* ---- NormSpec: normalizer under test
    nfn,        \* which normalizer: "none", "gemini", "response"
    nx,         \* the parsed reasoner output it is given
    ny,         \* normalizer(nx), or NotRun
    nz,         \* normalizer(ny), or NotRun
    \* ---- Spec: one request
    op,         \* "idle", "processContent", "performAudit"
    pc,         \* position inside the operation
    req,        \* the request: input kind, userId, environment flags
    planIdx,    \* index of the next extraction method of the plan
    started,    \* extraction strategies started so far, in order
    attempts,   \* outcome of each finished strategy, in order
    cur,        \* locals of the running plan iteration (method, raw, cleaned)
    calls,      \* number of reasoner calls made for the request
    result,     \* what the reasoner call returned (parsed JSON), or NotRun
    firstPass,  \* performAudit: result of the first pass while the rerun runs
    store,      \* AuditStore: sequence of saved auditResult values
    outcome,    \* what the operation gave its caller, or NotRun
    reasonerFailed, \* the latest reasoner call of the request threw
    saveFailed, \* record.save() of the request rejected
    \* ---- RetrySpec: one call of retryWithBackoff
    retry,      \* its locals: attempts, attempt, lastError, the waits made
    \* ---- TempSpec: requests that download media to temp files
    clock,      \* Date.now(), in milliseconds since the process started
    env,        \* process.env: production, enableAudio
    reqs,       \* per request: route, position, tempPath, download attempt
    files,      \* os.tmpdir(): path -> the request whose data the file holds
    procs,      \* running download subprocesses: [req, path]
    \* ---- CallSpec: the external calls of one audit, with their deadlines
    io,         \* the call in progress, its timer, the time it has taken
    \* ---- RouteSpec: one input from classification to the reasoner call
    disp,       \* the input, its classification, the calls made for it
    \* ---- ValidSpec: one text given to the content validator
    val,        \* the text's lines and the validator's result
    \* ---- WorkerSpec: one PDF buffer in the PDF text pipeline
    pdf,        \* the buffer, the pipeline's position, the OCR worker
    \* ---- WorkerSpec: one URL in the headless-browser scrapers
    scrape,     \* the attempt, the position inside it, the open browsers
    \* ---- HistorySpec: the audit records and one retrieval request
    db          \* the AuditRecord collection and the answer to the request

nvars == <<nfn, nx, ny, nz>>
pvars == <<op, pc, req, planIdx, started, attempts, cur, calls, result, firstPass, store, outcome, reasonerFailed, saveFailed>>
rvars == <<retry>>
tvars == <<clock, env, reqs, files, procs>>
ivars == <<io>>
dvars == <<disp>>
xvars == <<val, pdf, scrape, db>>
vars == <<nfn, nx, ny, nz, op, pc, req, planIdx, started, attempts, cur, calls, result, firstPass, store, outcome, reasonerFailed, saveFailed, retry, clock, env, reqs, files, procs, io, disp, val, pdf, scrape, db>>

(***************************************************************************)
(* JSON values as the reasoner can return them.                            *)
(***************************************************************************)
\* n units as hundredths.
Units(n) == n * 100

Num(n) == [k |-> "num", v |-> n]
Absent == [k |-> "absent", v |-> 0]
IsNum(x) == x.k = "num"

NotRun == [t |-> "notrun"]
Thrown(m) == [t |-> "thrown", msg |-> m]
IsThrown(x) == x.t = "thrown"

Min(a, b) == IF a < b THEN a ELSE b
Max(a, b) == IF a > b THEN a ELSE b

\* Math.round on a number kept in hundredths; the result is in units.
MathRound(v) == (v + 50) \div 100

\* A list-or-other field of a violation (guidance, fix): absent, a list of
\* strings, or a string of strlen characters.
GAbsent == [k |-> "absent", items |-> <<>>, strlen |-> 0]
GList(s) == [k |-> "list", items |-> s, strlen |-> 0]
GString(n) == [k |-> "string", items |-> <<>>, strlen |-> n]

\* The violations field of a parsed object: absent, an array, or a string.
VAbsent == [k |-> "absent", items |-> <<>>, strlen |-> 0]
VArray(s) == [k |-> "array", items |-> s, strlen |-> 0]
VString(n) == [k |-> "string", items |-> <<>>, strlen |-> n]

\* A JSON object (t = "object") or array (t = "array": every named field
\* absent) with the fields the normalizers read.
EmptyObject ==
    [t |-> "object", score |-> Absent, complianceScore |-> Absent, status |-> "",
     summary |-> "", transcription |-> "", financialPenalty |-> "",
     ethicalMarketing |-> "", violations |-> VAbsent, modelUsed |-> "", error |-> "",
     usedFallback |-> FALSE, usedFailSafe |-> FALSE]
JArray == [EmptyObject EXCEPT !.t = "array"]
JNull == [t |-> "null"]
JNumber == [t |-> "number"]
JString == [t |-> "string"]

IsObjectLike(x) == x.t \in {"object", "array"}

(***************************************************************************)
(* contentProcessor.js: normalizeGeminiResult                              *)
(***************************************************************************)
normalizeScore(value) ==
    IF ~IsNum(value) THEN Num(0)
    ELSE IF value.v <= Units(1) THEN Num(Units(value.v))
    ELSE Num(Units(Max(0, Min(100, MathRound(value.v)))))

normalizeGeminiResult(r) ==
    IF ~IsObjectLike(r) THEN Thrown("Gemini returned invalid JSON")
    ELSE [t |-> "object",
          score |-> normalizeScore(r.score),
          complianceScore |-> Absent,
          status |-> IF r.status # "" THEN r.status ELSE "Needs Review",
          summary |-> IF r.summary # "" THEN r.summary ELSE "Summary unavailable.",
          transcription |-> r.transcription,
          financialPenalty |-> IF r.financialPenalty # "" THEN r.financialPenalty ELSE "Low",
          ethicalMarketing |-> IF r.ethicalMarketing # "" THEN r.ethicalMarketing
                               ELSE "Ethical marketing assessment unavailable.",
          violations |-> IF r.violations.k = "array" THEN r.violations ELSE VArray(<<>>),
          modelUsed |-> "", error |-> "", usedFallback |-> FALSE, usedFailSafe |-> FALSE]

(***************************************************************************)
(* auditService.js: normalizeResponse                                      *)
(***************************************************************************)
GUIDANCE_PLACEHOLDER == "Review applicable regulatory guidelines and consult legal counsel for compliance"
FIX_PLACEHOLDER == "[Full compliant rewritten advertisement text required - replace with regulation-based rewrite]"

toUpperCase(s) ==
    CASE s = "high" -> "HIGH"
      [] s = "low" -> "LOW"
      [] s = "urgent" -> "URGENT"
      [] OTHER -> s

validSeverities == {"CRITICAL", "HIGH", "MEDIUM", "LOW"}

severityScores(sev) ==
    CASE sev = "CRITICAL" -> Units(90)
      [] sev = "HIGH" -> Units(70)
      [] sev = "MEDIUM" -> Units(50)
      [] sev = "LOW" -> Units(30)
      [] OTHER -> Units(50)

RECURSIVE PushUntil(_, _, _)
PushUntil(s, n, x) == IF Len(s) >= n THEN s ELSE PushUntil(Append(s, x), n, x)

\* "if (!Array.isArray(g) || g.length < 2) { g = g || []; while (g.length < 2)
\* g.push(p) }": a string of one character has no push, a longer string is
\* left as it is.  The result is the field, or Thrown.
ensureTwo(g, placeholder) ==
    CASE g.k = "list" -> GList(PushUntil(g.items, 2, placeholder))
      [] g.k = "absent" -> GList(PushUntil(<<>>, 2, placeholder))
      [] g.k = "string" /\ g.strlen = 0 -> GList(PushUntil(<<>>, 2, placeholder))
      [] g.k = "string" /\ g.strlen = 1 -> Thrown("TypeError: push is not a function")
      [] OTHER -> g

normalizeViolation(v) ==
    LET up == toUpperCase(IF v.severity # "" THEN v.severity ELSE "MEDIUM")
        sev == IF up \in validSeverities THEN up ELSE "MEDIUM"
        evid == IF v.evidence # "" THEN v.evidence
                ELSE "Evidence not extracted verbatim from content"
        risk == IF ~IsNum(v.risk_score) \/ v.risk_score.v < 0 \/ v.risk_score.v > Units(100)
                THEN severityScores(sev) ELSE v.risk_score.v
        g == ensureTwo(v.guidance, GUIDANCE_PLACEHOLDER)
        f == ensureTwo(v.fix, FIX_PLACEHOLDER)
    IN  IF "t" \in DOMAIN g THEN g
        ELSE IF "t" \in DOMAIN f THEN f
        ELSE [severity |-> sev,
              regulation |-> IF v.regulation # "" THEN v.regulation
                             ELSE "Applicable Indian Healthcare Regulation",
              violation_title |-> IF v.violation_title # "" THEN v.violation_title
                                  ELSE "Regulatory Violation Detected",
              evidence |-> evid,
              translation |-> IF v.translation # "" THEN v.translation ELSE evid,
              guidance |-> g,
              fix |-> f,
              risk_score |-> Num(Max(0, Min(Units(100), risk)))]

RECURSIVE MaxRisk(_)
MaxRisk(s) ==
    IF s = <<>> THEN 0
    ELSE LET r == IF IsNum(Head(s).risk_score) THEN Head(s).risk_score.v ELSE 0
         IN IF Len(s) = 1 THEN r ELSE Max(r, MaxRisk(Tail(s)))

normalizeResponse(p) ==
    IF p.t = "null" THEN Thrown("TypeError: cannot read properties of null")
    ELSE IF ~IsObjectLike(p) THEN Thrown("TypeError: cannot create property on primitive")
    ELSE IF p.status = "Compliant"
            \/ (p.violations.k = "array" /\ p.violations.items = <<>>
                /\ p.complianceScore = Num(0))
    THEN [EmptyObject EXCEPT !.complianceScore = Num(0),
                             !.violations = VArray(<<>>),
                             !.status = "Compliant"]
    ELSE IF ~IsNum(p.complianceScore) /\ p.violations.k = "string" /\ p.violations.strlen > 0
    THEN Thrown("TypeError: violations.map is not a function")
    ELSE
    LET cs0 == IF IsNum(p.complianceScore) THEN p.complianceScore.v
               ELSE IF p.violations.k = "array" /\ p.violations.items # <<>>
                    THEN Min(Units(100), MaxRisk(p.violations.items))
                    ELSE 0
        cs == Max(0, Min(Units(100), cs0))
        items == IF p.violations.k = "array" THEN p.violations.items ELSE <<>>
        mapped == [i \in 1..Len(items) |-> normalizeViolation(items[i])]
    IN  IF \E i \in 1..Len(items) : "t" \in DOMAIN mapped[i]
        THEN mapped[CHOOSE i \in 1..Len(items) :
                        /\ "t" \in DOMAIN mapped[i]
                        /\ \A j \in 1..(i-1) : "t" \notin DOMAIN mapped[j]]
        ELSE [p EXCEPT !.complianceScore = Num(cs), !.violations = VArray(mapped)]

(***************************************************************************)
(* Parsed reasoner outputs the model draws from.                           *)
(***************************************************************************)
MaxViolations == 1

\* -5, 0, 0.01, 0.5, 1, 1.5, 50, 95, 100, 150 in hundredths
ScoreValues == {-500, 0, 1, 50, 100, 150, 5000, 9500, 10000, 15000}
ScoreInputs == {Absent} \cup {Num(v) : v \in ScoreValues}

GInputs ==
    {GAbsent, GList(<<>>), GList(<<"g1">>), GList(<<"g1", "g2">>),
     GList(<<"g1", "g2", "g3">>), GString(1), GString(3)}

BaseViolation ==
    [severity |-> "high", regulation |-> "ASCI Code", violation_title |-> "title",
     evidence |-> "quote", translation |-> "quote (en)",
     guidance |-> GList(<<"g1", "g2">>), fix |-> GList(<<"f1", "f2">>),
     risk_score |-> Num(Units(70))]

ViolationInputs ==
    {[BaseViolation EXCEPT !.guidance = g] : g \in GInputs}
    \cup {[BaseViolation EXCEPT !.fix = g] : g \in GInputs}
    \cup {[BaseViolation EXCEPT !.severity = sv, !.risk_score = r] :
            sv \in {"", "low", "urgent"},
            r \in {Absent, Num(-100), Num(Units(150))}}
    \cup {[BaseViolation EXCEPT !.regulation = "", !.violation_title = "",
                                !.evidence = "", !.translation = ""]}

SeqsUpTo(S, n) == UNION {[1..k -> S] : k \in 0..n}

ViolationsInputs ==
    {VAbsent, VString(4)} \cup {VArray(q) : q \in SeqsUpTo(ViolationInputs, MaxViolations)}

StatusInputs == {"", "Compliant", "Non-Compliant"}

\* the remaining report fields, all absent or all present
RestInputs ==
    {[summary |-> "", transcription |-> "", financialPenalty |-> "", ethicalMarketing |-> ""],
     [summary |-> "s", transcription |-> "tr", financialPenalty |-> "High",
      ethicalMarketing |-> "em"]}

NonObjects == {JNull, JNumber, JString, JArray}

\* objects in the schema of geminiService.buildCompliancePrompt ("score")
GeminiObjects(scores, statuses, viols) ==
    {[EmptyObject EXCEPT !.score = sc, !.status = st, !.violations = vs,
                         !.summary = r.summary, !.transcription = r.transcription,
                         !.financialPenalty = r.financialPenalty,
                         !.ethicalMarketing = r.ethicalMarketing] :
        sc \in scores, st \in statuses, vs \in viols, r \in RestInputs}

\* objects in the schema of auditService.buildAuditPrompt ("complianceScore")
AuditObjects(scores, statuses, viols) ==
    {[EmptyObject EXCEPT !.complianceScore = sc, !.status = st, !.violations = vs] :
        sc \in scores, st \in statuses, vs \in viols}

GeminiParsed == NonObjects \cup GeminiObjects(ScoreInputs, StatusInputs, ViolationsInputs)
AuditParsed == NonObjects \cup AuditObjects(ScoreInputs, StatusInputs, ViolationsInputs)

(***************************************************************************)
(* NormSpec: a normalizer applied once and twice to a parsed output.       *)
(***************************************************************************)
Normalize(fn, x) == IF fn = "gemini" THEN normalizeGeminiResult(x) ELSE normalizeResponse(x)

\* no retryWithBackoff call is being followed
RetryIdle == retry = [status |-> "idle"]

\* no external call is being followed
CallIdle == io = [status |-> "idle"]

\* no input is being routed
RouteIdle == disp = [status |-> "idle"]

\* no text is being validated, no PDF read, no URL scraped, no record kept
ValidIdle == val = [status |-> "idle"]
PdfIdle == pdf = [status |-> "idle"]
ScrapeIdle == scrape = [status |-> "idle"]
HistoryIdle == db = [status |-> "idle"]
OthersIdle == ValidIdle /\ PdfIdle /\ ScrapeIdle /\ HistoryIdle

\* no downloading request is being followed
TempIdle ==
    /\ clock = 0 /\ env = [production |-> FALSE, enableAudio |-> FALSE]
    /\ reqs = <<>> /\ files = {} /\ procs = {}

NormIdle == nfn = "none" /\ nx = NotRun /\ ny = NotRun /\ nz = NotRun

\* the request of an idle pipeline; process.env is read from it
IdleRequestOf(prod) ==
    [kind |-> "none", userId |-> FALSE, production |-> prod,
     enablePuppeteer |-> FALSE, enableAudio |-> FALSE,
     transcript |-> "none"]

PipelineAtRest ==
    /\ op = "idle" /\ pc = "idle"
    /\ planIdx = 0 /\ started = <<>> /\ attempts = <<>>
    /\ cur = [method |-> "", rawLen |-> 0, cleanedLen |-> 0]
    /\ calls = 0 /\ result = NotRun /\ firstPass = NotRun
    /\ store = <<>> /\ outcome = NotRun
    /\ reasonerFailed = FALSE /\ saveFailed = FALSE

PipelineIdle == req = IdleRequestOf(FALSE) /\ PipelineAtRest

NormInit ==
    /\ nfn \in {"gemini", "response"}
    /\ nx \in IF nfn = "gemini" THEN GeminiParsed ELSE AuditParsed
    /\ ny = NotRun /\ nz = NotRun
    /\ PipelineIdle /\ RetryIdle /\ TempIdle /\ CallIdle /\ RouteIdle /\ OthersIdle

NormalizeOnce ==
    /\ nfn # "none" /\ ny = NotRun
    /\ ny' = Normalize(nfn, nx)
    /\ UNCHANGED <<nfn, nx, nz>>
    /\ UNCHANGED <<pvars, rvars, tvars, ivars, dvars, xvars>>

NormalizeTwice ==
    /\ nfn # "none" /\ ny # NotRun /\ ~IsThrown(ny) /\ nz = NotRun
    /\ nz' = Normalize(nfn, ny)
    /\ UNCHANGED <<nfn, nx, ny>>
    /\ UNCHANGED <<pvars, rvars, tvars, ivars, dvars, xvars>>

NormNext == NormalizeOnce \/ NormalizeTwice

NormSpec == NormInit /\ [][NormNext]_vars

(***************************************************************************)
(* Extracted text: a sequence of lines.  A line is its text after          *)
(* normalizeLine (key: the lower-cased text, len: its length, nav: whether *)
(* it holds a navigation or sidebar term) and pad, the number of           *)
(* whitespace characters normalizeLine removes from it.                    *)
(***************************************************************************)
MaxLines == 3

Line(key, len, nav, pad) == [key |-> key, len |-> len, nav |-> nav, pad |-> pad]

RawLines ==
    {Line("", 0, FALSE, 0),
     Line("share this", 89, TRUE, 0),
     Line("subscribe to", 90, TRUE, 0),
     Line("claim", 119, FALSE, 0),
     Line("paragraph", 120, FALSE, 0),
     Line("article", 300, FALSE, 0),
     Line("article", 300, FALSE, 200)}

RawTexts == SeqsUpTo(RawLines, MaxLines) \ {<<>>}

RECURSIVE SumLen(_, _)
SumLen(ls, withPad) ==
    IF ls = <<>> THEN 0
    ELSE Head(ls).len + (IF withPad THEN Head(ls).pad ELSE 0) + SumLen(Tail(ls), withPad)

\* length of lines.join('\n')
JoinedLength(ls, withPad) == IF ls = <<>> THEN 0 ELSE SumLen(ls, withPad) + Len(ls) - 1

isLikelyNavigation(line) == IF line.len >= 90 THEN FALSE ELSE line.nav
isLikelySidebar(line) == IF line.len >= 90 THEN FALSE ELSE line.nav

RECURSIVE FilterLines(_, _)
FilterLines(ls, seen) ==
    IF ls = <<>> THEN <<>>
    ELSE LET line == Head(ls)
             dup == line.len < 120 /\ line.key \in seen
             seen2 == IF line.len < 120 THEN seen \cup {line.key} ELSE seen
             keep == ~dup /\ ~isLikelyNavigation(line) /\ ~isLikelySidebar(line)
         IN (IF keep THEN <<line>> ELSE <<>>) \o FilterLines(Tail(ls), seen2)

cleanArticleContent(raw) ==
    LET normalized == [i \in 1..Len(raw) |-> [raw[i] EXCEPT !.pad = 0]]
        nonEmpty == SelectSeq(normalized, LAMBDA l : l.len > 0)
    IN FilterLines(nonEmpty, {})

\* contentValidator.ts: (rawLength - cleanedLength) / rawLength > 0.4, exact
\* on the integers: no length ratio lies within a rounding error of 2/5.
LossExceeds(rawLength, cleanedLength) == 10 * (rawLength - cleanedLength) > 4 * rawLength

\* the guard with its threshold moved from 0.4 to 0.5
enforceContentLossGuard_Half(rawLength, cleanedLength) ==
    IF rawLength = 0 THEN FALSE
    ELSE 10 * (rawLength - cleanedLength) > 5 * rawLength

\* TRUE when the guard throws
enforceContentLossGuard(rawLength, cleanedLength) ==
    IF rawLength = 0 THEN FALSE ELSE LossExceeds(rawLength, cleanedLength)

MIN_CLEANED == 300

\* what an extractor can return and what buildAuditInput makes of it: the
\* length of the raw text, the length of cleanArticleContent(raw), and
\* whether raw.trim() is empty
Extractions ==
    {[rawLen |-> JoinedLength(raw, TRUE),
      cleanedLen |-> JoinedLength(cleanArticleContent(raw), FALSE),
      blank |-> SumLen(raw, FALSE) = 0] : raw \in RawTexts}

(***************************************************************************)
(* contentProcessor.js: processContent, processText, processUrl            *)
(***************************************************************************)
Returned(v) == [t |-> "returned", value |-> v]
NoCur == [method |-> "", rawLen |-> 0, cleanedLen |-> 0]
Attempt(m, o) == [method |-> m, outcome |-> o]

allowPuppeteer == ~req.production \/ req.enablePuppeteer
extractionPlan ==
    IF allowPuppeteer THEN <<"jina_reader", "readability", "puppeteer">>
    ELSE <<"jina_reader", "readability">>

PlanMethods == {"jina_reader", "readability", "puppeteer"}

ReasonerFailures == {"timeout", "empty response", "upstream error", "invalid JSON"}

\* the outputs the reasoner is let to give inside a request
PipelineViolations ==
    {VAbsent, VArray(<<>>), VArray(<<BaseViolation>>),
     VArray(<<[BaseViolation EXCEPT !.guidance = GList(<<"g1">>)]>>),
     VArray(<<[BaseViolation EXCEPT !.fix = GString(3)]>>)}
PipelineScores == {Absent, Num(-500), Num(0), Num(50), Num(9500), Num(15000)}
PipelineStatuses == {"", "Non-Compliant"}
PipelineGemini ==
    NonObjects \cup
    {[EmptyObject EXCEPT !.score = sc, !.status = st, !.violations = vs] :
        sc \in PipelineScores, st \in PipelineStatuses, vs \in PipelineViolations}
PipelineAudit == NonObjects \cup AuditObjects(PipelineScores, PipelineStatuses, PipelineViolations)

Init ==
    /\ nfn = "none" /\ nx = NotRun /\ ny = NotRun /\ nz = NotRun
    /\ PipelineIdle /\ RetryIdle /\ TempIdle /\ CallIdle /\ RouteIdle /\ OthersIdle

\* processContent up to its first await: authentication, detectContentType,
\* rule loading, dispatch.
processContent ==
    /\ op = "idle"
    /\ \E kind \in {"text", "webpage", "youtube"}, uid \in BOOLEAN,
          prod \in BOOLEAN, pup \in BOOLEAN, aud \in BOOLEAN :
        /\ req' = [kind |-> kind, userId |-> uid, production |-> prod,
                   enablePuppeteer |-> pup, enableAudio |-> aud,
                   transcript |-> "none"]
        /\ op' = "processContent"
        /\ IF ~uid
           THEN /\ pc' = "done"
                /\ outcome' = Thrown("Authentication required")
                /\ UNCHANGED <<planIdx, cur>>
           ELSE IF kind = "text"
           THEN /\ pc' = "reasoner"
                /\ cur' = [NoCur EXCEPT !.method = "text"]
                /\ UNCHANGED <<planIdx, outcome>>
           ELSE IF kind = "youtube"
           THEN /\ pc' = "youtube"
                /\ UNCHANGED <<planIdx, cur, outcome>>
           ELSE /\ pc' = "plan"
                /\ planIdx' = 1
                /\ UNCHANGED <<cur, outcome>>
    /\ UNCHANGED <<started, attempts, calls, result, firstPass, store>>
    /\ UNCHANGED <<reasonerFailed, saveFailed>>
    /\ UNCHANGED <<nvars, rvars, tvars, ivars, dvars, xvars>>

\* one iteration of the plan loop up to the reasoner call:
\* extractBlogContentByMethod, buildAuditInput, the length check.  cur keeps
\* the iteration's raw and cleaned lengths until the next iteration starts.
ExtractAttempt ==
    /\ op = "processContent" /\ pc = "plan" /\ planIdx <= Len(extractionPlan)
    /\ LET method == extractionPlan[planIdx] IN
       /\ started' = Append(started, method)
       /\ \/ \* the extractor throws (HTTP error, timeout, browser disabled)
             /\ attempts' = Append(attempts, Attempt(method, "ExtractFailed"))
             /\ planIdx' = planIdx + 1
             /\ cur' = NoCur
             /\ UNCHANGED pc
          \/ \E x \in Extractions :
               /\ ~(method = "puppeteer" /\ ~req.enablePuppeteer)
               /\ LET rawLen == x.rawLen
                      cleanedLen == x.cleanedLen
                      locals == [method |-> method, rawLen |-> rawLen,
                                 cleanedLen |-> cleanedLen]
                  IN IF x.blank
                     THEN \* "returned empty content"
                          /\ attempts' = Append(attempts, Attempt(method, "ExtractFailed"))
                          /\ planIdx' = planIdx + 1
                          /\ cur' = NoCur
                          /\ UNCHANGED pc
                     ELSE IF enforceContentLossGuard(rawLen, cleanedLen)
                     THEN /\ attempts' = Append(attempts, Attempt(method, "CleaningLoss"))
                          /\ planIdx' = planIdx + 1
                          /\ cur' = locals
                          /\ UNCHANGED pc
                     ELSE IF cleanedLen < MIN_CLEANED
                     THEN /\ attempts' = Append(attempts, Attempt(method, "TooShort"))
                          /\ planIdx' = planIdx + 1
                          /\ cur' = locals
                          /\ UNCHANGED pc
                     ELSE /\ pc' = "reasoner"
                          /\ cur' = locals
                          /\ UNCHANGED <<attempts, planIdx>>
    /\ UNCHANGED <<op, req, calls, result, firstPass, store, outcome>>
    /\ UNCHANGED <<reasonerFailed, saveFailed>>
    /\ UNCHANGED <<nvars, rvars, tvars, ivars, dvars, xvars>>

MaxMetadataLen == 2

\* after the loop: extractMetadataFromUrl, which returns '' when it fails
MetadataAttempt ==
    /\ op = "processContent" /\ pc = "plan" /\ planIdx > Len(extractionPlan)
    /\ started' = Append(started, "metadata")
    /\ \/ /\ attempts' = Append(attempts, Attempt("metadata", "ExtractFailed"))
          /\ pc' = "done"
          /\ outcome' = Thrown("Blog content extraction failed")
          /\ cur' = NoCur
       \/ \E n \in 1..MaxMetadataLen :
          /\ pc' = "reasoner"
          /\ cur' = [method |-> "metadata", rawLen |-> n, cleanedLen |-> n]
          /\ UNCHANGED <<attempts, outcome>>
    /\ UNCHANGED <<op, req, planIdx, calls, result, firstPass, store>>
    /\ UNCHANGED <<reasonerFailed, saveFailed>>
    /\ UNCHANGED <<nvars, rvars, tvars, ivars, dvars, xvars>>

(***************************************************************************)
(* youtubeTranscriptService.js: getYoutubeTranscript as processUrl calls   *)
(* it for a YouTube URL                                                    *)
(***************************************************************************)
youtubeChain == <<"captions", "ytdlp_metadata", "oembed", "audio">>
\* the audio stage without its feature gate
ALLOW_AUDIO_DOWNLOAD_Always == TRUE

ALLOW_AUDIO_DOWNLOAD == ~req.production \/ req.enableAudio

\* the text getYoutubeTranscript returns when nothing yielded any
Unavailable == [NoCur EXCEPT !.method = "unavailable"]

\* normalizeUrl: an invalid URL throws, processUrl catches and builds the
\* text of fetchYouTubeFallbackText; validateYoutubeUrl's error is logged
getYoutubeTranscript ==
    /\ op = "processContent" /\ pc = "youtube"
    /\ \/ /\ pc' = "reasoner"
          /\ cur' = [NoCur EXCEPT !.method = "fallback_text"]
          /\ UNCHANGED planIdx
       \/ /\ pc' = "transcript" /\ planIdx' = 1
          /\ UNCHANGED cur
    /\ UNCHANGED <<op, req, started, attempts, calls, result, firstPass, store, outcome>>
    /\ UNCHANGED <<reasonerFailed, saveFailed>>
    /\ UNCHANGED <<nvars, rvars, tvars, ivars, dvars, xvars>>

\* one extractor of getYoutubeTranscript: captions, yt-dlp metadata, oEmbed,
\* audio download + transcription.  The audio temp file is followed in TempSpec.
YoutubeAttempt ==
    /\ op = "processContent" /\ pc = "transcript" /\ planIdx <= Len(youtubeChain)
    /\ LET method == youtubeChain[planIdx] IN
       /\ started' = Append(started, method)
       /\ \/ \* the extractor yields text
             /\ pc' = "reasoner"
             /\ cur' = [NoCur EXCEPT !.method = method]
             /\ UNCHANGED <<attempts, planIdx>>
          \/ \* it throws after its retries, or the captions are empty
             /\ attempts' = Append(attempts, Attempt(method, "ExtractFailed"))
             /\ planIdx' = planIdx + 1
             /\ IF method = "audio" \/ (method = "oembed" /\ ~ALLOW_AUDIO_DOWNLOAD)
                THEN pc' = "reasoner" /\ cur' = Unavailable
                ELSE UNCHANGED <<pc, cur>>
    /\ UNCHANGED <<op, req, calls, result, firstPass, store, outcome>>
    /\ UNCHANGED <<reasonerFailed, saveFailed>>
    /\ UNCHANGED <<nvars, rvars, tvars, ivars, dvars, xvars>>

\* analyzeWithGemini and what its caller does with the outcome
ReasonerFails ==
    /\ op = "processContent" /\ pc = "reasoner"
    /\ calls' = calls + 1
    /\ \E f \in ReasonerFailures :
        CASE cur.method = "metadata" ->
                /\ pc' = "done" /\ outcome' = Thrown("Blog content extraction failed")
                /\ attempts' = Append(attempts, Attempt("metadata", "ReasonerFailed"))
                /\ UNCHANGED planIdx
          [] cur.method \in PlanMethods ->
                /\ pc' = "plan" /\ planIdx' = planIdx + 1
                /\ attempts' = Append(attempts, Attempt(cur.method, "ReasonerFailed"))
                /\ UNCHANGED outcome
          [] OTHER -> \* processText, the YouTube branch: nothing catches
                /\ pc' = "done" /\ outcome' = Thrown(f)
                /\ UNCHANGED <<attempts, planIdx>>
    /\ UNCHANGED cur
    /\ UNCHANGED <<op, req, started, result, firstPass, store>>
    /\ reasonerFailed' = TRUE
    /\ UNCHANGED saveFailed
    /\ UNCHANGED <<nvars, rvars, tvars, ivars, dvars, xvars>>

ReasonerReturns ==
    /\ op = "processContent" /\ pc = "reasoner"
    /\ calls' = calls + 1
    /\ \E v \in PipelineGemini :
        IF cur.method \in {"jina_reader", "readability", "puppeteer"} /\ v.t \in {"null", "number", "string"}
        THEN \* "auditResult.metadata = ..." throws on null and on a primitive
             /\ pc' = "plan" /\ planIdx' = planIdx + 1
             /\ attempts' = Append(attempts, Attempt(cur.method, "ReasonerFailed"))
             /\ UNCHANGED <<result, cur>>
        ELSE /\ pc' = "save" /\ result' = v
             /\ cur' = NoCur
             /\ UNCHANGED <<attempts, planIdx>>
    /\ UNCHANGED <<op, req, started, firstPass, store, outcome>>
    /\ reasonerFailed' = FALSE
    /\ UNCHANGED saveFailed
    /\ UNCHANGED <<nvars, rvars, tvars, ivars, dvars, xvars>>

\* processDocumentBuffer is not modelled; every other path hands the parsed
\* value to saveAuditRecord as it is.
saveAuditRecord ==
    /\ op = "processContent" /\ pc = "save"
    /\ LET normalizedResult == normalizeGeminiResult(result) IN
       \/ /\ IsThrown(normalizedResult)
          /\ outcome' = normalizedResult
          /\ UNCHANGED <<store, saveFailed>>
       \/ /\ ~IsThrown(normalizedResult)
          /\ \/ /\ store' = Append(store, normalizedResult)
                /\ outcome' = Returned(result)
                /\ UNCHANGED saveFailed
             \/ /\ outcome' = Thrown("AuditRecord save failed")
                /\ saveFailed' = TRUE
                /\ UNCHANGED store
    /\ pc' = "done"
    /\ UNCHANGED <<op, req, planIdx, started, attempts, cur, calls, result, firstPass>>
    /\ UNCHANGED reasonerFailed
    /\ UNCHANGED <<nvars, rvars, tvars, ivars, dvars, xvars>>

(***************************************************************************)
(* auditService.js: performAudit, performAuditWithModel                    *)
(***************************************************************************)
FAILSAFE_SCORE == 90

\* the structured error response of performAudit's outer catch; message
\* carries the primary error's message
ErrorShell(cause) ==
    [f \in DOMAIN EmptyObject \cup {"message"} |->
        IF f = "message" THEN cause
        ELSE [EmptyObject EXCEPT !.complianceScore = Num(0),
                                 !.violations = VArray(<<>>),
                                 !.modelUsed = "none",
                                 !.error = "Audit failed"][f]]

\* what performAuditWithModel returns for a normalized response
ModelResult(normalized, useFailSafe) ==
    [EmptyObject EXCEPT !.complianceScore = normalized.complianceScore,
                        !.violations = normalized.violations,
                        !.modelUsed = "gemini-2.0-flash",
                        !.usedFailSafe = useFailSafe]

\* performAudit up to its first await: the transcript checks
performAudit ==
    /\ op = "idle"
    /\ \E tr \in {"empty", "short", "ok"} :
        /\ req' = [kind |-> "audit", userId |-> FALSE, production |-> FALSE,
                   enablePuppeteer |-> FALSE, enableAudio |-> FALSE,
                   transcript |-> tr]
        /\ op' = "performAudit"
        /\ IF tr = "ok"
           THEN pc' = "primary" /\ UNCHANGED outcome
           ELSE pc' = "done" /\ outcome' = Thrown("Audit failed")
    /\ UNCHANGED <<planIdx, started, attempts, cur, calls, result, firstPass, store>>
    /\ UNCHANGED <<reasonerFailed, saveFailed>>
    /\ UNCHANGED <<nvars, rvars, tvars, ivars, dvars, xvars>>

\* performAuditWithModel throws: the call fails, the response is empty,
\* JSON.parse or normalizeResponse throws.  Either pass ends in the shell.
AuditCallFails ==
    /\ op = "performAudit" /\ pc \in {"primary", "failsafe"}
    /\ calls' = calls + 1
    /\ \/ \E f \in ReasonerFailures : outcome' = Returned(ErrorShell(f))
       \/ \E v \in PipelineAudit :
             /\ IsThrown(normalizeResponse(v))
             /\ outcome' = Returned(ErrorShell(normalizeResponse(v).msg))
    /\ pc' = "done"
    /\ UNCHANGED <<op, req, planIdx, started, attempts, cur, result, firstPass, store>>
    /\ reasonerFailed' = TRUE
    /\ UNCHANGED saveFailed
    /\ UNCHANGED <<nvars, rvars, tvars, ivars, dvars, xvars>>

AuditCallReturns ==
    /\ op = "performAudit" /\ pc \in {"primary", "failsafe"}
    /\ calls' = calls + 1
    /\ \E v \in PipelineAudit :
        LET normalized == normalizeResponse(v)
            res == ModelResult(normalized, pc = "failsafe")
        IN /\ ~IsThrown(normalized)
           /\ result' = v
           /\ IF pc = "primary"
              THEN IF res.violations.items = <<>> /\ res.complianceScore.v >= Units(FAILSAFE_SCORE)
                   THEN /\ pc' = "failsafe" /\ firstPass' = res
                        /\ UNCHANGED outcome
                   ELSE /\ pc' = "done" /\ outcome' = Returned(res)
                        /\ UNCHANGED firstPass
              ELSE /\ pc' = "done"
                   /\ outcome' = Returned(IF res.violations.items # <<>> THEN res ELSE firstPass)
                   /\ UNCHANGED firstPass
    /\ UNCHANGED <<op, req, planIdx, started, attempts, cur, store>>
    /\ reasonerFailed' = FALSE
    /\ UNCHANGED saveFailed
    /\ UNCHANGED <<nvars, rvars, tvars, ivars, dvars, xvars>>

Next ==
    \/ processContent
    \/ ExtractAttempt
    \/ MetadataAttempt
    \/ getYoutubeTranscript
    \/ YoutubeAttempt
    \/ ReasonerFails
    \/ ReasonerReturns
    \/ saveAuditRecord
    \/ performAudit
    \/ AuditCallFails
    \/ AuditCallReturns

Spec == Init /\ [][Next]_vars

(***************************************************************************)
(* youtubeTranscriptService: retryWithBackoff, the JavaScript copy         *)
(* (MAX_RETRIES = 2) and the TypeScript copy (MAX_RETRIES = 3)             *)
(***************************************************************************)
MAX_RETRIES == 2
MAX_RETRIES_TS == 3
BACKOFF_BASE_MS == 800
BACKOFF_FACTOR == 2

RECURSIVE Pow(_, _)
Pow(b, e) == IF e = 0 THEN 1 ELSE b * Pow(b, e - 1)

\* a flat wait in place of the exponential one
backoffMs_Flat(attempt) == BACKOFF_BASE_MS

backoffMs(attempt) == BACKOFF_BASE_MS * Pow(BACKOFF_FACTOR, attempt - 1)

\* what fn can reject with: Error instances (a deadline, a 5xx, a 4xx and a
\* 429 answer of the remote party) and a value that is not one
Rejections ==
    {[isError |-> TRUE, id |-> "timeout"], [isError |-> TRUE, id |-> "HTTP 503"],
     [isError |-> TRUE, id |-> "HTTP 404"], [isError |-> TRUE, id |-> "HTTP 429"],
     [isError |-> FALSE, id |-> "a string"]}
UnknownError == [isError |-> TRUE, id |-> "Unknown error"]

\* the value the function throws once the loop is over
Rethrown(variant, lastError) ==
    IF variant = "ts" /\ ~lastError.isError THEN UnknownError ELSE lastError

RetryInit ==
    /\ \E variant \in {"js", "ts"}, n \in {MAX_RETRIES, MAX_RETRIES_TS} :
          retry = [status |-> "calling", variant |-> variant, attempts |-> n,
                   attempt |-> 1, calls |-> 0, waits |-> <<>>,
                   failures |-> <<>>, thrown |-> UnknownError]
    /\ NormIdle /\ PipelineIdle /\ TempIdle /\ CallIdle /\ RouteIdle /\ OthersIdle

\* await fn() resolves: the value is returned
FnResolves ==
    /\ retry.status = "calling"
    /\ retry' = [retry EXCEPT !.status = "returned", !.calls = @ + 1]
    /\ UNCHANGED <<nvars, pvars, tvars, ivars, dvars, xvars>>

\* await fn() rejects: lastError is set and the loop sleeps or ends
FnRejects ==
    /\ retry.status = "calling"
    /\ \E e \in Rejections :
        IF retry.attempt < retry.attempts
        THEN retry' = [retry EXCEPT !.status = "sleeping", !.calls = @ + 1,
                                    !.failures = Append(@, e),
                                    !.waits = Append(@, backoffMs(retry.attempt))]
        ELSE retry' = [retry EXCEPT !.status = "thrown", !.calls = @ + 1,
                                    !.failures = Append(@, e),
                                    !.thrown = Rethrown(retry.variant, e)]
    /\ UNCHANGED <<nvars, pvars, tvars, ivars, dvars, xvars>>

\* the sleep is over: next iteration
SleepEnds ==
    /\ retry.status = "sleeping"
    /\ retry' = [retry EXCEPT !.status = "calling", !.attempt = @ + 1]
    /\ UNCHANGED <<nvars, pvars, tvars, ivars, dvars, xvars>>

RetryNext == FnResolves \/ FnRejects \/ SleepEnds

RetrySpec == RetryInit /\ [][RetryNext]_vars

(***************************************************************************)
(* Temp files of concurrent requests.  Three code paths write one:         *)
(*   "transcript"       getYoutubeTranscript's audio stage                 *)
(*   "urlAuditYoutube"  POST /url-audit -> transcribeYoutubeUrl            *)
(*   "urlAuditMedia"    POST /url-audit -> downloadMediaToTemp             *)
(* A path is <<prefix, Date.now()>>; a file is [path, owner], owner the    *)
(* request whose download wrote it last.                                   *)
(***************************************************************************)
MaxRequests == 2
MaxClock == 2

Requests == 1..MaxRequests
NoPath == <<"", 0>>
IdleRequest ==
    [route |-> "none", pc |-> "idle", tempPath |-> NoPath, attempt |-> 0,
     downloaded |-> FALSE, aborted |-> FALSE, read |-> 0, result |-> "none"]

\* fs: writing a path replaces what was there; unlink removes the path
WriteFile(fs, path, owner) ==
    {f \in fs : f.path # path} \cup {[path |-> path, owner |-> owner]}
Unlink(fs, path) == {f \in fs : f.path # path}
Exists(fs, path) == \E f \in fs : f.path = path

TempInit ==
    /\ clock = 0
    /\ env \in [production : BOOLEAN, enableAudio : BOOLEAN]
    /\ reqs = [r \in Requests |-> IdleRequest]
    /\ files = {} /\ procs = {}
    /\ NormIdle /\ PipelineIdle /\ RetryIdle /\ CallIdle /\ RouteIdle /\ OthersIdle

\* time passes between two readings of Date.now()
Tick ==
    /\ clock < MaxClock
    /\ clock' = clock + 1
    /\ UNCHANGED <<env, reqs, files, procs>>
    /\ UNCHANGED <<nvars, pvars, rvars, ivars, dvars, xvars>>

\* getYoutubeTranscript reaches "audio download only as last resort"
AudioLastResort(r) ==
    /\ reqs[r].pc = "idle"
    /\ IF ~env.production \/ env.enableAudio
       THEN reqs' = [reqs EXCEPT ![r] = [@ EXCEPT !.route = "transcript",
                        !.pc = "download", !.attempt = 1,
                        !.tempPath = <<"yt-audio", clock>>]]
       ELSE reqs' = [reqs EXCEPT ![r] = [@ EXCEPT !.route = "transcript",
                        !.pc = "finished", !.result = "unavailable"]]
    /\ UNCHANGED <<clock, env, files, procs>>
    /\ UNCHANGED <<nvars, pvars, rvars, ivars, dvars, xvars>>

\* an attempt of retryWithBackoff(downloadYoutubeAudio) failed: retry, or
\* leave through catch and finally { fs.unlink(tempFile) }.  The unlink is
\* queued before the function returns; the request still has its reasoner
\* call ahead, so the model lets it take effect at once.
AttemptFailed(r, fs, timedOut) ==
    IF reqs[r].attempt < MAX_RETRIES
    THEN /\ reqs' = [reqs EXCEPT ![r] = [@ EXCEPT !.pc = "download",
                        !.attempt = @ + 1, !.aborted = @ \/ timedOut]]
         /\ files' = fs
    ELSE /\ reqs' = [reqs EXCEPT ![r] = [@ EXCEPT !.pc = "finished",
                        !.result = "unavailable", !.aborted = @ \/ timedOut]]
         /\ files' = Unlink(fs, reqs[r].tempPath)

\* downloadYoutubeAudio: validateYoutubeUrl throws, or yt-dlp is spawned
StartDownload(r) ==
    /\ reqs[r].route = "transcript" /\ reqs[r].pc = "download"
    /\ \/ /\ AttemptFailed(r, files, FALSE)
          /\ UNCHANGED procs
       \/ /\ reqs' = [reqs EXCEPT ![r] = [@ EXCEPT !.pc = "downloading",
                                                  !.downloaded = TRUE]]
          /\ procs' = procs \cup {[req |-> r, path |-> reqs[r].tempPath,
                                   attempt |-> reqs[r].attempt]}
          /\ UNCHANGED files
    /\ UNCHANGED <<clock, env>>
    /\ UNCHANGED <<nvars, pvars, rvars, ivars, dvars, xvars>>

\* withTimeout rejects after AUDIO_TIMEOUT_MS; nothing stops the subprocess
DownloadTimesOut(r) ==
    /\ reqs[r].route = "transcript" /\ reqs[r].pc = "downloading"
    /\ AttemptFailed(r, files, TRUE)
    /\ UNCHANGED <<clock, env, procs>>
    /\ UNCHANGED <<nvars, pvars, rvars, ivars, dvars, xvars>>

\* POST /url-audit with a YouTube URL: transcribeYoutubeUrl ->
\* downloadYoutubeAudio starts yt-dlp-exec on a fresh temp path
transcribeYoutubeUrl(r) ==
    /\ reqs[r].pc = "idle"
    /\ reqs' = [reqs EXCEPT ![r] = [@ EXCEPT !.route = "urlAuditYoutube",
                    !.pc = "downloading", !.attempt = 1, !.downloaded = TRUE,
                    !.tempPath = <<"yt-audio", clock>>]]
    /\ procs' = procs \cup {[req |-> r, path |-> <<"yt-audio", clock>>, attempt |-> 1]}
    /\ UNCHANGED <<clock, env, files>>
    /\ UNCHANGED <<nvars, pvars, rvars, ivars, dvars, xvars>>

\* a download subprocess exits.  Exit code 0: the file is at its path.
\* Otherwise it may leave what it wrote so far.  The request notices only
\* if it is still awaiting this process.
ProcCloses(r, a) ==
    /\ \E p \in procs : p.req = r /\ p.attempt = a
    /\ LET p == CHOOSE q \in procs : q.req = r /\ q.attempt = a
           awaited == reqs[r].pc = "downloading" /\ reqs[r].attempt = p.attempt
           written == WriteFile(files, p.path, r)
       IN \/ \* exit code 0
             /\ IF ~awaited THEN reqs' = reqs /\ files' = written
                ELSE IF reqs[r].route = "urlAuditYoutube"
                THEN /\ reqs' = [reqs EXCEPT ![r] = [@ EXCEPT !.pc = "transcribe"]]
                     /\ files' = written
                ELSE \* validateDownloadedAudio passes or throws
                     \/ /\ reqs' = [reqs EXCEPT ![r] = [@ EXCEPT !.pc = "transcribe"]]
                        /\ files' = written
                     \/ AttemptFailed(r, written, FALSE)
          \/ \* exit code # 0
             \E fs \in {files, written} :
                IF ~awaited THEN reqs' = reqs /\ files' = fs
                ELSE IF reqs[r].route = "transcript"
                THEN AttemptFailed(r, fs, FALSE)
                ELSE IF reqs[r].attempt = 1
                THEN \* yt-dlp-exec failed: runYtDlpFallback is awaited next
                     /\ reqs' = [reqs EXCEPT ![r] = [@ EXCEPT !.pc = "fallback"]]
                     /\ files' = fs
                ELSE \* the fallback failed too: audioPath is still '' in
                     \* finally, nothing is deleted
                     /\ reqs' = [reqs EXCEPT ![r] = [@ EXCEPT !.pc = "finished",
                                                            !.result = "error"]]
                     /\ files' = fs
    /\ procs' = {q \in procs : ~(q.req = r /\ q.attempt = a)}
    /\ UNCHANGED <<clock, env>>
    /\ UNCHANGED <<nvars, pvars, rvars, ivars, dvars, xvars>>

\* runYtDlpFallback spawns the yt-dlp binary on the same path
runYtDlpFallback(r) ==
    /\ reqs[r].route = "urlAuditYoutube" /\ reqs[r].pc = "fallback"
    /\ reqs' = [reqs EXCEPT ![r] = [@ EXCEPT !.pc = "downloading", !.attempt = 2]]
    /\ procs' = procs \cup {[req |-> r, path |-> reqs[r].tempPath, attempt |-> 2]}
    /\ UNCHANGED <<clock, env, files>>
    /\ UNCHANGED <<nvars, pvars, rvars, ivars, dvars, xvars>>

\* POST /url-audit with a media URL: downloadMediaToTemp.  axios.get
\* fails, or the response is piped into createWriteStream(tempPath)
downloadMediaToTemp(r) ==
    /\ reqs[r].pc = "idle"
    /\ \/ /\ reqs' = [reqs EXCEPT ![r] = [@ EXCEPT !.route = "urlAuditMedia",
                          !.pc = "finished", !.result = "error"]]
          /\ UNCHANGED files
       \/ /\ reqs' = [reqs EXCEPT ![r] = [@ EXCEPT !.route = "urlAuditMedia",
                          !.pc = "writing", !.tempPath = <<"url-media", clock>>]]
          /\ files' = WriteFile(files, <<"url-media", clock>>, r)
    /\ UNCHANGED <<clock, env, procs>>
    /\ UNCHANGED <<nvars, pvars, rvars, ivars, dvars, xvars>>

\* the write stream emits finish, or error: the promise rejects before the
\* route's try/finally is entered
WriteEnds(r) ==
    /\ reqs[r].route = "urlAuditMedia" /\ reqs[r].pc = "writing"
    /\ \/ /\ reqs' = [reqs EXCEPT ![r] = [@ EXCEPT !.pc = "transcribe"]]
          /\ files' = WriteFile(files, reqs[r].tempPath, r)
       \/ /\ reqs' = [reqs EXCEPT ![r] = [@ EXCEPT !.pc = "finished", !.result = "error"]]
          /\ UNCHANGED files
    /\ UNCHANGED <<clock, env, procs>>
    /\ UNCHANGED <<nvars, pvars, rvars, ivars, dvars, xvars>>

\* the transcription call reads the file at the request's path, then the
\* finally block deletes that path (fs.unlink / safeDelete)
Transcribe(r) ==
    /\ reqs[r].pc = "transcribe"
    /\ LET path == reqs[r].tempPath
           owner == IF Exists(files, path)
                    THEN (CHOOSE f \in files : f.path = path).owner ELSE 0
       IN \E ok \in BOOLEAN :
            reqs' = [reqs EXCEPT ![r] = [@ EXCEPT !.pc = "finished", !.read = owner,
                        !.result = IF ok /\ owner # 0 THEN "text"
                                   ELSE IF reqs[r].route = "transcript" THEN "unavailable"
                                   ELSE "error"]]
    /\ files' = Unlink(files, reqs[r].tempPath)
    /\ UNCHANGED <<clock, env, procs>>
    /\ UNCHANGED <<nvars, pvars, rvars, ivars, dvars, xvars>>

TempNext ==
    \/ Tick
    \/ \E r \in Requests : AudioLastResort(r)
    \/ \E r \in Requests : StartDownload(r)
    \/ \E r \in Requests : DownloadTimesOut(r)
    \/ \E r \in Requests : transcribeYoutubeUrl(r)
    \/ \E r \in Requests, a \in 1..MAX_RETRIES : ProcCloses(r, a)
    \/ \E r \in Requests : runYtDlpFallback(r)
    \/ \E r \in Requests : downloadMediaToTemp(r)
    \/ \E r \in Requests : WriteEnds(r)
    \/ \E r \in Requests : Transcribe(r)

TempSpec == TempInit /\ [][TempNext]_vars

(***************************************************************************)
(* The external calls of one audit, each with the deadline the code puts   *)
(* on it.  Time is followed per call; the remote party may answer at any   *)
(* instant or never.  transcribe() of an uploaded or downloaded media      *)
(* buffer belongs to a module that is not part of these sources and is     *)
(* left out of the chain.                                                  *)
(***************************************************************************)
REQUEST_TIMEOUT == 60000
PUPPETEER_TIMEOUT == 45000
GEMINI_TIMEOUT_MS == 30000
AUDIO_TIMEOUT_MS == 2 * 60 * 1000
TRANSCRIBE_TIMEOUT_MS == 3 * 60 * 1000

\* how long a call is followed when nothing ends it
MaxWaitMs == 600000

\* The timer armed while a call is awaited: none, or one deadline.
\* scrapingService: axios timeout, page.goto timeout, the abort timer of
\* fetchHtml; the reader-proxy fetch is given no signal
scrapingDeadline(call) ==
    CASE call \in {"readability", "metadata"} -> {REQUEST_TIMEOUT}
      [] call = "puppeteer" -> {PUPPETEER_TIMEOUT}
      [] OTHER -> {}

\* youtubeTranscriptService: withTimeout around the subprocesses and the
\* transcription; none around the captions fetch and the oEmbed fetch
youtubeDeadline(call) ==
    CASE call \in {"ytdlp_metadata", "audio_download"} -> {AUDIO_TIMEOUT_MS}
      [] call = "transcribe" -> {TRANSCRIBE_TIMEOUT_MS}
      [] OTHER -> {}

\* geminiService.analyzeWithGemini: withTimeout around generateContent
geminiDeadline(call) == IF call = "reasoner" THEN {GEMINI_TIMEOUT_MS} ELSE {}

\* contentProcessor.downloadMediaFile: the abort timer is cleared as soon as
\* fetch() has resolved, before the body is read
downloadDeadline(call) == IF call = "media_headers" THEN {REQUEST_TIMEOUT} ELSE {}

\* auditInputBuilder.translateToEnglish awaits generateContent bare
translateDeadline(call) == {}

deadlineOf(call) ==
    scrapingDeadline(call) \cup youtubeDeadline(call) \cup geminiDeadline(call)
        \cup downloadDeadline(call) \cup translateDeadline(call)

\* the instants at which a call is looked at
Instants ==
    {GEMINI_TIMEOUT_MS, PUPPETEER_TIMEOUT, REQUEST_TIMEOUT, AUDIO_TIMEOUT_MS,
     TRANSCRIBE_TIMEOUT_MS, MaxWaitMs}

CallKinds == {"text", "webpage", "youtube", "media"}

firstCall(kind) ==
    CASE kind = "text" -> "reasoner"
      [] kind = "webpage" -> "jina_reader"
      [] kind = "youtube" -> "captions"
      [] kind = "media" -> "media_headers"

\* the plan method tried after method m, or the metadata fallback
afterMethod(c, m) ==
    CASE m = "jina_reader" -> "readability"
      [] m = "readability" -> IF c.allowPuppeteer THEN "puppeteer" ELSE "metadata"
      [] m = "puppeteer" -> "metadata"
      [] OTHER -> "failed"

\* what the audit does once the call of c has ended, well (ok) or not:
\* the next call, or "done" / "failed" when the audit is over
afterCall(c, ok) ==
    CASE c.call \in {"jina_reader", "readability", "puppeteer"} ->
            IF ok THEN (IF c.lang = "hi" THEN "translate" ELSE "reasoner")
            ELSE afterMethod(c, c.call)
      [] c.call = "metadata" -> IF ok THEN "reasoner" ELSE "failed"
      [] c.call = "translate" -> "reasoner"
      [] c.call \in {"captions", "ytdlp_metadata"} ->
            IF ok THEN "reasoner"
            ELSE IF c.call = "captions" THEN "ytdlp_metadata" ELSE "oembed"
      [] c.call = "oembed" ->
            IF ok \/ ~c.allowAudio THEN "reasoner" ELSE "audio_download"
      [] c.call = "audio_download" -> IF ok THEN "transcribe" ELSE "reasoner"
      [] c.call = "transcribe" -> "reasoner"
      [] c.call = "media_headers" -> IF ok THEN "media_body" ELSE "failed"
      [] c.call = "media_body" -> IF ok THEN "reasoner" ELSE "failed"
      [] c.call = "reasoner" ->
            IF ok THEN "done"
            ELSE IF c.kind = "webpage" THEN afterMethod(c, c.from) ELSE "failed"

\* the call of c ends (how: ok, error, timeout) and the audit moves on; the
\* body of a media download goes on under the clock of its headers
EndCall(c, how) ==
    LET next == afterCall(c, how = "ok") IN
    [c EXCEPT !.log = Append(@, <<c.call, how>>),
              !.status = IF next \in {"done", "failed"} THEN next ELSE "calling",
              !.call = IF next \in {"done", "failed"} THEN c.call ELSE next,
              !.from = IF c.call \in {"jina_reader", "readability", "puppeteer", "metadata"}
                       THEN c.call ELSE @,
              !.elapsed = IF next = "media_body" THEN @ ELSE 0,
              !.beat = FALSE]

CallInit ==
    /\ \E kind \in CallKinds, lang \in {"en", "hi"}, pup \in BOOLEAN, aud \in BOOLEAN :
          io = [status |-> "calling", kind |-> kind, lang |-> lang,
                allowPuppeteer |-> pup, allowAudio |-> aud,
                call |-> firstCall(kind), from |-> "", elapsed |-> 0,
                beat |-> FALSE, log |-> <<>>]
    /\ NormIdle /\ PipelineIdle /\ RetryIdle /\ TempIdle /\ RouteIdle /\ OthersIdle

\* time passes while the call is awaited, not beyond an armed deadline;
\* past the last instant the clock goes on and only its beat is kept
Elapse ==
    /\ io.status = "calling"
    /\ \/ \E t \in Instants :
             /\ t > io.elapsed
             /\ \A d \in deadlineOf(io.call) : t <= d
             /\ io' = [io EXCEPT !.elapsed = t]
       \/ /\ io.elapsed = MaxWaitMs
          /\ io' = [io EXCEPT !.beat = ~@]
    /\ UNCHANGED <<nvars, pvars, rvars, tvars, dvars, xvars>>

\* the remote party answers, with a result or with an error
Responds ==
    /\ io.status = "calling"
    /\ \E how \in {"ok", "error"} : io' = EndCall(io, how)
    /\ UNCHANGED <<nvars, pvars, rvars, tvars, dvars, xvars>>

\* the timer of the call fires: the call is given up
DeadlineExpires ==
    /\ io.status = "calling"
    /\ \E d \in deadlineOf(io.call) : io.elapsed >= d
    /\ io' = EndCall(io, "timeout")
    /\ UNCHANGED <<nvars, pvars, rvars, tvars, dvars, xvars>>

CallNext == Elapse \/ Responds \/ DeadlineExpires

\* the runtime's timers and clock are fair; the remote party is not
CallSpec == CallInit /\ [][CallNext]_vars /\ WF_vars(Elapse) /\ WF_vars(DeadlineExpires)

(***************************************************************************)
(* URLs and their classification.  A URL is its scheme, its host and the   *)
(* rest (path and query); host and rest are sequences of pieces of text,   *)
(* cut so that the strings the classifiers look for are whole pieces.      *)
(***************************************************************************)
Schemes == {"https", "ftp"}
Hosts ==
    {<<"youtube.com">>, <<"www.", "youtube.com">>, <<"m.", "youtube.com">>,
     <<"youtu.be">>, <<"example.com">>, <<"not", "youtube.com">>}
Rests == {<<"/watch">>, <<"/clip", ".mp4">>, <<"/?ref=", "youtube.com">>}
Urls == [scheme : Schemes, host : Hosts, rest : Rests]
NoUrl == [scheme |-> "", host |-> <<>>, rest |-> <<>>]

Pieces(s) == {s[i] : i \in 1..Len(s)}

\* String.prototype.includes on the whole URL, and on the host alone
urlIncludes(url, needle) == needle \in Pieces(url.host) \cup Pieces(url.rest)
hostIncludes(url, needle) == needle \in Pieces(url.host)

\* new URL(url).protocol is http: or https:
HttpProtocol(url) == url.scheme \in {"http", "https"}

\* contentProcessor.isYouTubeUrl
isYouTubeUrl(url) == urlIncludes(url, "youtube.com") \/ urlIncludes(url, "youtu.be")

\* contentProcessor.detectUrlContentType, over the platforms and the
\* extensions that occur in Urls
detectUrlContentType(url) ==
    IF urlIncludes(url, "youtube.com") \/ urlIncludes(url, "youtu.be") THEN "video"
    ELSE IF urlIncludes(url, ".mp4") THEN "video"
    ELSE "webpage"

\* urlDetector.service: YOUTUBE_HOSTS, isYouTubeHost, hasMediaExtension
YOUTUBE_HOSTS ==
    {<<"youtube.com">>, <<"www.", "youtube.com">>, <<"youtu.be">>, <<"m.", "youtube.com">>}

\* host === ytHost || host.endsWith(`.${ytHost}`)
isYouTubeHost(host) ==
    \/ host \in YOUTUBE_HOSTS
    \/ /\ Len(host) = 2
       /\ host[1] \in {"www.", "m."}
       /\ \E ytHost \in YOUTUBE_HOSTS : SubSeq(host, 2, 2) = ytHost

hasMediaExtension(url) == url.rest[Len(url.rest)] = ".mp4"

\* urlDetector.service detectUrlType, behind POST /url-audit
detectUrlType(url) ==
    IF ~HttpProtocol(url) THEN Thrown("URL must start with http or https")
    ELSE IF isYouTubeHost(url.host) THEN Returned("youtube")
    ELSE IF hasMediaExtension(url) THEN Returned("media")
    ELSE Returned("webpage")

\* universalContentService detectUrlType, behind POST /universal-content
universalDetectUrlType(url) ==
    IF ~HttpProtocol(url) THEN Thrown("Invalid URL")
    ELSE IF hostIncludes(url, "youtube.com") \/ hostIncludes(url, "youtu.be")
         THEN Returned("youtube")
    ELSE Returned("blog")

(***************************************************************************)
(* Texts and metadataDetector.detectLanguage.  A text is its length, the   *)
(* number of its whitespace characters, of its Devanagari characters and   *)
(* of its Latin letters; every text here is shorter than the 6000          *)
(* characters of the sample, so the sample is the text.                    *)
(***************************************************************************)
Hindi(n) == [len |-> n, ws |-> n \div 6, dev |-> n - (n \div 6), lat |-> 0]
English(n) == [len |-> n, ws |-> n \div 6, dev |-> 0, lat |-> n - (n \div 6)]
Mixed(n) ==
    [len |-> n, ws |-> n \div 6, dev |-> (n - (n \div 6)) \div 2,
     lat |-> (n - (n \div 6)) \div 2]
NoText == [len |-> 0, ws |-> 0, dev |-> 0, lat |-> 0]

\* cleaned page texts long enough for the truncations to cut them
LongTexts == {Hindi(9000), Hindi(12000)}

Texts ==
    {Hindi(79), Hindi(81), English(79), English(81), Hindi(400), English(400), Mixed(400)}

\* what franc can answer for a sample
FrancCodes == {"hin", "eng", "und"}

\* ratios as percentages of the non-whitespace characters; a ratio r
\* exceeds p/100 exactly when count * 100 > p * length
detectScriptMix(text) ==
    LET length == text.len - text.ws IN
    IF length = 0 THEN [devanagari |-> 0, latin |-> 0, length |-> 1]
    ELSE [devanagari |-> text.dev, latin |-> text.lat, length |-> length]

mapFrancCode(code) ==
    CASE code = "hin" -> "hi"
      [] code = "eng" -> "en"
      [] OTHER -> code

\* the language, and whether the franc classifier was asked for it
detectLanguage(text, franc) ==
    LET mix == detectScriptMix(text) IN
    IF mix.devanagari * 100 > 15 * mix.length /\ mix.latin * 100 > 15 * mix.length
    THEN [language |-> "mixed", classifier |-> FALSE]
    ELSE IF mix.devanagari * 100 > 20 * mix.length
    THEN [language |-> "hi", classifier |-> FALSE]
    ELSE IF text.len < 80
    THEN [language |-> "unknown", classifier |-> FALSE]
    ELSE IF franc = "und"
    THEN [language |-> "unknown", classifier |-> TRUE]
    ELSE [language |-> mapFrancCode(franc), classifier |-> TRUE]

(***************************************************************************)
(* One input from its entry point to the reasoner call and the save:       *)
(* contentProcessor.processContent with processText, processUrl and the    *)
(* buffer processors; and the URL classification of the two other entry    *)
(* points, POST /url-audit and POST /universal-content.  disp.trace lists  *)
(* what has been done for the input, in order.                             *)
(***************************************************************************)
\* A MIME type is <<type, subtype>>: "image/png" is <<"image", "png">>, so
\* that startsWith('image/') and split('/')[0] look at the first part.
DOCX_SUBTYPE == "vnd.openxmlformats-officedocument.wordprocessingml.document"
Mimetypes ==
    {<<"image", "png">>, <<"image", "bmp">>, <<"audio", "mpeg">>,
     <<"video", "mp4">>, <<"application", "pdf">>, <<"application", "msword">>,
     <<"application", DOCX_SUBTYPE>>, <<"application", "zip">>, <<"text", "csv">>}
NoMime == <<"", "">>

\* auditRoutes.js: the fileFilter of the multer upload
allowedMimes ==
    {<<"image", "jpeg">>, <<"image", "png">>, <<"image", "gif">>, <<"image", "webp">>,
     <<"audio", "mpeg">>, <<"audio", "mp3">>, <<"audio", "wav">>, <<"audio", "webm">>,
     <<"audio", "ogg">>, <<"video", "mp4">>, <<"video", "webm">>,
     <<"video", "quicktime">>, <<"application", DOCX_SUBTYPE>>,
     <<"application", "msword">>, <<"application", "pdf">>}

\* isAllowed: the type equals an allowed one or starts with the part of an
\* allowed one before the slash, and the slash
fileFilter(mimetype) ==
    \E mime \in allowedMimes : mimetype = mime \/ mimetype[1] = mime[1]

TextInput(t) == [kind |-> "text", text |-> t, url |-> NoUrl, mimetype |-> NoMime]
UrlInput(u) == [kind |-> "url", text |-> NoText, url |-> u, mimetype |-> NoMime]
FileInput(m) == [kind |-> "file", text |-> NoText, url |-> NoUrl, mimetype |-> m]

Inputs ==
    {TextInput(t) : t \in Texts} \cup {UrlInput(u) : u \in Urls}
        \cup {FileInput(m) : m \in Mimetypes}

\* the answer of the URL's own server to a request for it
ServerStatuses == {200, 403}

detectContentType(input) ==
    CASE input.kind = "text" -> Returned("text")
      [] input.kind = "url" -> Returned("url")
      [] input.mimetype[1] = "image" -> Returned("image")
      [] input.mimetype[1] = "video" -> Returned("video")
      [] input.mimetype[1] = "audio" -> Returned("audio")
      [] input.mimetype = <<"application", DOCX_SUBTYPE>> -> Returned("document")
      [] input.mimetype = <<"application", "msword">> -> Returned("document")
      [] input.mimetype = <<"application", "pdf">> -> Returned("document")
      [] OTHER -> Thrown("Unable to detect content type")

\* the arguments of an analyzeWithGemini call: with the request's rule
\* pack, country and region, or without them (rules defaults to [])
WithRules(context) ==
    [rules |-> "pack", country |-> "given", region |-> "given", contentContext |-> context]
WithoutRules ==
    [rules |-> "[]", country |-> "undefined", region |-> "undefined", contentContext |-> ""]

\* A text handed to the reasoner: its length, and where in it the English
\* translation lies (trLen = 0: it holds none).
PlainText(n) == [len |-> n, trFrom |-> 0, trLen |-> 0]

\* content.substring(0, n)
Substring(x, n) == [x EXCEPT !.len = Min(@, n)]

\* the number of characters of the translation that x holds
TranslatedKept(x) == Max(0, Min(x.len, x.trFrom + x.trLen) - x.trFrom)

MAX_CONTENT_FOR_AI == 12000
MAX_CONTENT_LENGTH == 10000

\* contentProcessor.truncateForAI, geminiService.truncateContent
truncateForAI(x) == IF x.len > MAX_CONTENT_FOR_AI THEN Substring(x, MAX_CONTENT_FOR_AI) ELSE x
truncateContent(x) == IF x.len > MAX_CONTENT_LENGTH THEN Substring(x, MAX_CONTENT_LENGTH) ELSE x

\* the length of the names buildAuditText writes into its header
NameLength(name) ==
    CASE name \in {"jina_reader", "readability"} -> 11
      [] name = "puppeteer" -> 9
      [] name = "unknown" -> 7
      [] name = "mixed" -> 5
      [] name \in {"eng", "hin", "und"} -> 3
      [] OTHER -> 2

\* auditInputBuilder.buildAuditText: nine header lines, the cleaned text,
\* and when a translation exists an empty line, a label line, the
\* translation, an empty line and a closing line, joined by '\n'.  The
\* numbers are the lengths of the lines' fixed text.
buildAuditText(cleanedLen, translatedLen, method, language) ==
    LET header == 14 + 65 + 43 + 20 + 26 + (22 + NameLength(method))
                     + (22 + NameLength(language)) + 0 + 17 + 9
        upToCleaned == header + cleanedLen
        trFrom == upToCleaned + 1 + 0 + 1 + 49 + 1
    IN IF translatedLen > 0
       THEN [len |-> trFrom + translatedLen + 1 + 0 + 1 + 100,
             trFrom |-> trFrom, trLen |-> translatedLen]
       ELSE PlainText(upToCleaned)

\* what translateToEnglish gives back: '' (also when it throws) or a text
TranslatedLengths == {0, 600}

ARTICLE_CONTEXT == "Input is a written healthcare article, not a speech transcript."
METADATA_CONTEXT == "Input is page metadata only. Provide best-effort compliance analysis."

Throw(d, msg) == [d EXCEPT !.status = "thrown", !.pc = "end", !.error = msg]
Step(d, events) == [d EXCEPT !.trace = @ \o events]

RouteInit ==
    /\ \E entry \in {"processContent", "urlAudit", "universalContent"},
          input \in Inputs, uid \in BOOLEAN, st \in ServerStatuses :
          /\ entry # "processContent" => (input.kind = "url" /\ uid /\ st = 200)
          /\ input.kind # "url" => st = 200
          /\ disp = [status |-> "running", entry |-> entry,
                     pc |-> IF input.kind = "file" THEN "upload" ELSE "start",
                     input |-> input, userId |-> uid, serverStatus |-> st,
                     class |-> "", trace |-> <<>>, content |-> NoText,
                     title |-> FALSE, language |-> "", classifier |-> FALSE,
                     planIdx |-> 0, method |-> "", bare |-> FALSE,
                     context |-> "", args |-> <<>>, error |-> "",
                     translated |-> 0, auditText |-> PlainText(0),
                     sent |-> PlainText(0)]
    /\ \E prod \in BOOLEAN : req = IdleRequestOf(prod)
    /\ PipelineAtRest /\ NormIdle /\ RetryIdle /\ TempIdle /\ CallIdle /\ OthersIdle

\* POST /audit and POST /analyze: upload.single('file') applies fileFilter
\* to the uploaded file before the controller runs; a refused file ends
\* the request with the filter's error
uploadSingle ==
    /\ disp.status = "running" /\ disp.pc = "upload"
    /\ disp' = IF fileFilter(disp.input.mimetype)
               THEN [disp EXCEPT !.pc = "start"]
               ELSE [disp EXCEPT !.status = "refused", !.pc = "end",
                                 !.error = "Unsupported file type"]
    /\ UNCHANGED <<nvars, pvars, rvars, tvars, ivars, xvars>>

\* processContent after the userId check, up to its first await:
\* detectContentType, getRulesForSelection, and processUrl's classification
classified(d) ==
    LET type == detectContentType(d.input)
        url == d.input.url
        typed == Step(d, <<"detectContentType">>)
        ruled == Step(d, <<"detectContentType", "getRulesForSelection">>)
    IN IF IsThrown(type) THEN Throw(typed, type.msg)
       ELSE IF type.value = "text"
       THEN [ruled EXCEPT !.pc = "reasoner", !.content = d.input.text,
                          !.method = "text"]
       ELSE IF type.value = "url"
       THEN IF isYouTubeUrl(url)
            THEN [ruled EXCEPT !.pc = "youtube", !.class = "youtube"]
            ELSE IF detectUrlContentType(url) = "video"
            THEN [ruled EXCEPT !.pc = "download", !.class = "media"]
            ELSE [ruled EXCEPT !.pc = "plan", !.class = "webpage", !.planIdx = 1]
       ELSE [ruled EXCEPT !.pc = type.value]

\* processContent without its userId check
dispatched_Unchecked(d) == classified(d)

dispatched(d) ==
    IF ~d.userId THEN Throw(d, "Authentication required") ELSE classified(d)

\* processContent up to its first await
routeContent ==
    /\ disp.status = "running" /\ disp.pc = "start" /\ disp.entry = "processContent"
    /\ disp' = dispatched(disp)
    /\ UNCHANGED <<nvars, pvars, rvars, tvars, ivars, xvars>>

\* POST /url-audit classifies with urlDetector.detectUrlType
urlAuditDetect ==
    /\ disp.status = "running" /\ disp.pc = "start" /\ disp.entry = "urlAudit"
    /\ LET type == detectUrlType(disp.input.url) IN
       disp' = IF IsThrown(type) THEN Throw(disp, type.msg)
               ELSE [disp EXCEPT !.status = "classified", !.pc = "end",
                                 !.class = type.value]
    /\ UNCHANGED <<nvars, pvars, rvars, tvars, ivars, xvars>>

\* POST /universal-content classifies with universalContentService.detectUrlType
universalDetect ==
    /\ disp.status = "running" /\ disp.pc = "start" /\ disp.entry = "universalContent"
    /\ LET type == universalDetectUrlType(disp.input.url) IN
       disp' = IF IsThrown(type) THEN Throw(disp, type.msg)
               ELSE [disp EXCEPT !.status = "classified", !.pc = "end",
                                 !.class = type.value]
    /\ UNCHANGED <<nvars, pvars, rvars, tvars, ivars, xvars>>

\* processUrl, YouTube branch: getYoutubeTranscript, whose normalizeUrl
\* throws on a scheme other than http(s); the catch then asks the URL and
\* the oEmbed service for a fallback text.  Either way a text comes back.
routeYoutube ==
    /\ disp.status = "running" /\ disp.pc = "youtube"
    /\ \E t \in {Hindi(400), English(400)} :
          disp' = [Step(disp, IF HttpProtocol(disp.input.url)
                              THEN <<"getYoutubeTranscript">>
                              ELSE <<"getYoutubeTranscript", "fetchYouTubeFallbackText">>)
                   EXCEPT !.pc = "reasoner", !.content = t, !.method = "youtube"]
    /\ UNCHANGED <<nvars, pvars, rvars, tvars, ivars, xvars>>

\* processUrl, media branch: downloadMediaFile, then the scrape chain when
\* the answer is HTML, processMediaBuffer (called without country, region
\* and rules) when it is media
routeDownload ==
    /\ disp.status = "running" /\ disp.pc = "download"
    /\ LET fetched == Step(disp, <<"downloadMediaFile">>) IN
       \/ disp' = Throw(fetched, "Failed to download media")
       \/ /\ HttpProtocol(disp.input.url) /\ disp.serverStatus = 200
          /\ \/ \E t \in {Hindi(400), English(400)} :
                  disp' = [Step(fetched, <<"scrapeUrl">>)
                           EXCEPT !.pc = "reasoner", !.content = t, !.method = "scrape"]
             \/ disp' = [fetched EXCEPT !.pc = "video", !.bare = TRUE]
    /\ UNCHANGED <<nvars, pvars, rvars, tvars, ivars, xvars>>

\* a buffer processor up to its reasoner call: the extraction of the
\* buffer's text (event) throws or yields a text
BufferResults(d, event, method) ==
    LET tried == Step(d, <<event>>) IN
    {Throw(tried, "extraction failed")} \cup
    {[tried EXCEPT !.pc = "reasoner", !.content = t, !.method = method] :
        t \in {Hindi(400), English(400)}}

processMediaBuffer ==
    /\ disp.status = "running" /\ disp.pc \in {"video", "audio"}
    /\ disp' \in BufferResults(disp, "transcribe", "media")
    /\ UNCHANGED <<nvars, pvars, rvars, tvars, ivars, xvars>>

processImageBuffer ==
    /\ disp.status = "running" /\ disp.pc = "image"
    /\ disp' \in BufferResults(disp, "extractTextFromImage", "image")
    /\ UNCHANGED <<nvars, pvars, rvars, tvars, ivars, xvars>>

processDocumentBuffer ==
    /\ disp.status = "running" /\ disp.pc = "document"
    /\ disp' \in BufferResults(disp, "extractTextFromDocument", "document")
    /\ UNCHANGED <<nvars, pvars, rvars, tvars, ivars, xvars>>

\* the extraction of the plan's next method fails
AttemptFails(d) == [d EXCEPT !.planIdx = @ + 1]

\* one iteration of processUrl's plan loop up to the reasoner call:
\* extractBlogContentByMethod, then buildAuditInput (language detection,
\* translation of hi and mixed texts), then the length check.  axios
\* rejects a 403 answer and a scheme it does not know.
routePlan ==
    /\ disp.status = "running" /\ disp.pc = "plan"
    /\ disp.planIdx <= Len(extractionPlan)
    /\ LET method == extractionPlan[disp.planIdx]
           tried == Step(disp, <<method>>)
       IN \/ disp' = AttemptFails(tried)
          \/ /\ method = "readability" =>
                   (disp.serverStatus = 200 /\ HttpProtocol(disp.input.url))
             /\ \E t \in Texts \cup LongTexts, franc \in FrancCodes, tl \in TranslatedLengths :
                  LET lang == detectLanguage(t, franc)
                      translate == lang.language \in {"hi", "mixed"}
                      built == [Step(tried,
                                     IF translate
                                     THEN <<"detectLanguage", "translateToEnglish">>
                                     ELSE <<"detectLanguage">>)
                                EXCEPT !.content = t, !.language = lang.language,
                                       !.classifier = lang.classifier,
                                       !.translated = tl,
                                       !.auditText = truncateForAI(
                                           buildAuditText(t.len, tl, method, lang.language))]
                  IN /\ ~translate => tl = 0
                     /\ disp' = IF t.len < 300 THEN AttemptFails(built)
                             ELSE [built EXCEPT !.pc = "reasoner", !.method = method,
                                                !.context = ARTICLE_CONTEXT]
    /\ UNCHANGED <<nvars, pvars, rvars, tvars, ivars, xvars>>

\* after the plan: extractMetadataFromUrl.  fetchHtml throws on an answer
\* that is not ok, which extractMetadataFromUrl turns into ''.
routeMetadata ==
    /\ disp.status = "running" /\ disp.pc = "plan"
    /\ disp.planIdx > Len(extractionPlan)
    /\ LET tried == Step(disp, <<"metadata">>) IN
       \/ disp' = Throw(tried, "Blog content extraction failed")
       \/ /\ disp.serverStatus = 200 /\ HttpProtocol(disp.input.url)
          /\ \E title \in BOOLEAN :
               disp' = [tried EXCEPT !.pc = "reasoner", !.method = "metadata",
                                     !.content = English(81), !.title = title,
                                     !.language = "", !.classifier = FALSE,
                                     !.translated = 0, !.auditText = PlainText(0),
                                     !.context = METADATA_CONTEXT]
    /\ UNCHANGED <<nvars, pvars, rvars, tvars, ivars, xvars>>

\* analyzeWithGemini is called and returns or throws; inside the plan loop
\* a throw is caught like an extraction failure
routeReasoner ==
    /\ disp.status = "running" /\ disp.pc = "reasoner"
    /\ LET text == IF disp.method \in PlanMethods THEN disp.auditText
                   ELSE truncateForAI(PlainText(disp.content.len))
           called == [Step(disp, <<"analyzeWithGemini">>)
                      EXCEPT !.args = Append(@, IF disp.bare THEN WithoutRules
                                                ELSE WithRules(disp.context)),
                             !.sent = truncateContent(text)]
       IN \/ disp' = [called EXCEPT !.pc = "save"]
          \/ disp' = IF disp.method \in PlanMethods
                     THEN [AttemptFails(called) EXCEPT !.pc = "plan"]
                     ELSE IF disp.method = "metadata"
                     THEN Throw(called, "Blog content extraction failed")
                     ELSE Throw(called, "Gemini API call timed out")
    /\ UNCHANGED <<nvars, pvars, rvars, tvars, ivars, xvars>>

routeSave ==
    /\ disp.status = "running" /\ disp.pc = "save"
    /\ LET saved == Step(disp, <<"saveAuditRecord">>) IN
       \/ disp' = [saved EXCEPT !.status = "returned", !.pc = "end"]
       \/ disp' = Throw(saved, "save failed")
    /\ UNCHANGED <<nvars, pvars, rvars, tvars, ivars, xvars>>

RouteNext ==
    \/ uploadSingle
    \/ routeContent \/ urlAuditDetect \/ universalDetect
    \/ routeYoutube \/ routeDownload
    \/ processMediaBuffer \/ processImageBuffer \/ processDocumentBuffer
    \/ routePlan \/ routeMetadata \/ routeReasoner \/ routeSave

RouteSpec == RouteInit /\ [][RouteNext]_vars

(***************************************************************************)
(* contentValidator.ts: validateExtractedContent applied to one text.      *)
(* A text is its lines as split('\n') gives them; a line is the number of  *)
(* its words and characters (after trim), whether it equals its upper-case *)
(* form, and whether it starts with '#' or ends with ':'.                  *)
(***************************************************************************)
MaxValLines == 3

TextLine(words, chars, upper, marker) ==
    [words |-> words, chars |-> chars, upper |-> upper, marker |-> marker]

LineKinds ==
    {TextLine(0, 0, TRUE, FALSE),        \* an empty line
     TextLine(3, 18, FALSE, FALSE),      \* a short title
     TextLine(6, 30, FALSE, FALSE),
     TextLine(7, 40, FALSE, FALSE),      \* seven plain words
     TextLine(7, 40, TRUE, FALSE),       \* seven words in capitals
     TextLine(11, 60, FALSE, TRUE),      \* eleven words ending with ':'
     TextLine(12, 70, FALSE, FALSE),     \* a sentence of twelve words
     TextLine(500, 3200, FALSE, FALSE)}  \* a long paragraph

\* how the text ends: plainly, or with '...' or a 'read more' phrase
Endings == {"plain", "cut"}

ValidTexts ==
    {[lines |-> ls, ending |-> e] :
        ls \in SeqsUpTo(LineKinds, MaxValLines), e \in Endings}

MIN_CONTENT_CHARS == 3000
MIN_WORDS == 450

\* the lines that survive trim and filter(Boolean)
getLineStats(text) == SelectSeq(text.lines, LAMBDA l : l.chars > 0)

\* how many lines of ls satisfy Test
CountLines(ls, Test(_)) == Len(SelectSeq(ls, Test))

HEADING_RATIO_THRESHOLD == 60

\* headingLike.length / lines.length >= HEADING_RATIO_THRESHOLD, the
\* threshold in hundredths
isHeadingHeavy(text) ==
    LET lines == getLineStats(text)
        headingLike == CountLines(lines,
                          LAMBDA l : \/ l.words <= 6
                                     \/ (l.chars >= 6 /\ l.upper)
                                     \/ l.marker)
        longLines == CountLines(lines, LAMBDA l : l.words >= 12)
    IN IF Len(lines) = 0 THEN TRUE
       ELSE IF longLines * 100 >= 25 * Len(lines) THEN FALSE
       ELSE headingLike * 100 >= HEADING_RATIO_THRESHOLD * Len(lines)

RECURSIVE SumOf(_, _)
SumOf(ls, field) ==
    IF ls = <<>> THEN 0 ELSE Head(ls)[field] + SumOf(Tail(ls), field)

\* the text is empty after trim, or ends with an ellipsis, or has one of
\* the 'read more' phrases
detectTruncation(text) ==
    getLineStats(text) = <<>> \/ text.ending = "cut"

validateExtractedContent(text) ==
    LET length == SumOf(text.lines, "chars") + Max(0, Len(text.lines) - 1)
        wordCount == SumOf(text.lines, "words")
        headingHeavy == isHeadingHeavy(text)
        truncatedSuspected == detectTruncation(text)
        reasons ==
            (IF length < MIN_CONTENT_CHARS \/ wordCount < MIN_WORDS
             THEN {"content_too_short"} ELSE {})
            \cup (IF headingHeavy /\ wordCount < MIN_WORDS * 2
                  THEN {"heading_only_content"} ELSE {})
        warnings ==
            (IF headingHeavy /\ wordCount >= MIN_WORDS * 2
             THEN {"heading_heavy_content"} ELSE {})
            \cup (IF truncatedSuspected THEN {"content_appears_truncated"} ELSE {})
    IN [isValid |-> reasons = {}, length |-> length, wordCount |-> wordCount,
        headingHeavy |-> headingHeavy, truncatedSuspected |-> truncatedSuspected,
        warnings |-> warnings, reasons |-> reasons]

ValidInit ==
    /\ \E text \in ValidTexts : val = [status |-> "given", text |-> text]
    /\ NormIdle /\ PipelineIdle /\ RetryIdle /\ TempIdle /\ CallIdle /\ RouteIdle
    /\ PdfIdle /\ ScrapeIdle /\ HistoryIdle

Validate ==
    /\ val.status = "given"
    /\ val' = [status |-> "validated", text |-> val.text,
               result |-> validateExtractedContent(val.text)]
    /\ UNCHANGED <<nvars, pvars, rvars, tvars, ivars, dvars, pdf, scrape, db>>

ValidNext == Validate

ValidSpec == ValidInit /\ [][ValidNext]_vars

(***************************************************************************)
(* The operations that start a helper process: the PDF text pipeline with  *)
(* its tesseract worker (pdfTextPipeline.ts, documentService.js) and the   *)
(* headless-browser scrapers (scrapingService.scrapeUrl, blogExtraction's  *)
(* fetchPuppeteerArticleText).  One operation runs per behaviour; each     *)
(* action is the operation from one await to the next.                     *)
(***************************************************************************)
MIN_TEXT_LENGTH == 500
MAX_PAGES == 25
MaxPdfPages == 26

\* length of the embedded text after cleanText; the document's page count;
\* length of the text recognized on one page
EmbeddedLengths == {0, 499, 500, 800}
PageCounts == {1, 2, MAX_PAGES, MaxPdfPages}
PageTextLengths == {0, 100}

\* what extractTextFromPdf hands back: the embedded text, the OCR text, or
\* the 'PDF has no readable text' message
PdfText(kind, len) == [kind |-> kind, len |-> len]
NoPdfText == PdfText("none", 0)

\* parsedText.length >= MIN_TEXT_LENGTH returns the embedded text
needsOcr_Inclusive(length) == length <= MIN_TEXT_LENGTH
needsOcr(length) == ~(length >= MIN_TEXT_LENGTH)

pagesToProcess(totalPages) == Min(totalPages, MAX_PAGES)

\* textChunks.push(pageText) for a page text that is not blank, as the
\* length textChunks.join('\n') then has
pushChunk(joined, length) ==
    IF length = 0 THEN joined
    ELSE IF joined = 0 THEN length ELSE joined + 1 + length

\* extractTextFromPdf after the pipeline returned a text of that length
pdfReturns(p, kind, len) ==
    [p EXCEPT !.status = "returned", !.pc = "end",
              !.text = IF len = 0 THEN PdfText("message", 101)
                       ELSE PdfText(kind, len)]
pdfThrows(p) == [p EXCEPT !.status = "thrown", !.pc = "end"]

\* the finally block of ocrPdfWithTesseract
terminateWorker(p) == [p EXCEPT !.worker = "terminated"]

PdfInit ==
    \E embedded \in EmbeddedLengths, pages \in PageCounts, tooLarge \in BOOLEAN :
        pdf = [status |-> "running", pc |-> "start", tooLarge |-> tooLarge,
               embedded |-> embedded, pages |-> pages, ocr |-> FALSE,
               worker |-> "none", pageIndex |-> 0, ocrLen |-> 0,
               text |-> NoPdfText]

\* extractTextFromPdf: validateDocumentBuffer, then the pipeline is called
extractTextFromPdf ==
    /\ pdf.status = "running" /\ pdf.pc = "start"
    /\ pdf' = IF pdf.tooLarge THEN pdfThrows(pdf) ELSE [pdf EXCEPT !.pc = "parse"]
    /\ UNCHANGED <<nvars, pvars, rvars, tvars, ivars, dvars, val, scrape, db>>

\* extractTextFromPdfPipeline: pdfParse rejects, or gives the embedded text
extractTextFromPdfPipeline ==
    /\ pdf.status = "running" /\ pdf.pc = "parse"
    /\ \/ pdf' = pdfThrows(pdf)
       \/ pdf' = IF needsOcr(pdf.embedded)
                 THEN [pdf EXCEPT !.pc = "getDocument", !.ocr = TRUE]
                 ELSE pdfReturns(pdf, "embedded", pdf.embedded)
    /\ UNCHANGED <<nvars, pvars, rvars, tvars, ivars, dvars, val, scrape, db>>

\* ocrPdfWithTesseract: getDocument, then createWorker, both outside the try
ocrGetDocument ==
    /\ pdf.status = "running" /\ pdf.pc = "getDocument"
    /\ \/ pdf' = pdfThrows(pdf)
       \/ pdf' = [pdf EXCEPT !.pc = "createWorker"]
    /\ UNCHANGED <<nvars, pvars, rvars, tvars, ivars, dvars, val, scrape, db>>

ocrCreateWorker ==
    /\ pdf.status = "running" /\ pdf.pc = "createWorker"
    /\ \/ pdf' = pdfThrows(pdf)
       \/ pdf' = [pdf EXCEPT !.pc = "initialize", !.worker = "running"]
    /\ UNCHANGED <<nvars, pvars, rvars, tvars, ivars, dvars, val, scrape, db>>

\* worker.loadLanguage and worker.initialize, inside the try
ocrInitialize ==
    /\ pdf.status = "running" /\ pdf.pc = "initialize"
    /\ \/ pdf' = pdfThrows(terminateWorker(pdf))
       \/ pdf' = [pdf EXCEPT !.pc = "page", !.pageIndex = 1]
    /\ UNCHANGED <<nvars, pvars, rvars, tvars, ivars, dvars, val, scrape, db>>

\* one iteration of the page loop: getPage, renderPageToPng, recognize
ocrPage ==
    /\ pdf.status = "running" /\ pdf.pc = "page"
    /\ pdf.pageIndex <= pagesToProcess(pdf.pages)
    /\ \/ pdf' = pdfThrows(terminateWorker(pdf))
       \/ \E length \in PageTextLengths :
             pdf' = [pdf EXCEPT !.pageIndex = @ + 1,
                                !.ocrLen = pushChunk(@, length)]
    /\ UNCHANGED <<nvars, pvars, rvars, tvars, ivars, dvars, val, scrape, db>>

\* after the loop: the chunks are joined, the worker is terminated, and
\* the pipeline returns the cleaned OCR text
ocrReturns ==
    /\ pdf.status = "running" /\ pdf.pc = "page"
    /\ pdf.pageIndex > pagesToProcess(pdf.pages)
    /\ pdf' = pdfReturns(terminateWorker(pdf), "ocr", pdf.ocrLen)
    /\ UNCHANGED <<nvars, pvars, rvars, tvars, ivars, dvars, val, scrape, db>>

\* ---- the headless-browser scrapers
MAX_ATTEMPTS == 3

\* the finally block of an attempt: if (browser) await browser.close()
closeBrowser_Never(s) == [s EXCEPT !.browser = FALSE]
closeBrowser(s) ==
    IF s.browser THEN [s EXCEPT !.browser = FALSE, !.open = @ - 1] ELSE s

scrapeThrows(s) == [s EXCEPT !.status = "thrown", !.pc = "end"]
scrapeReturns(s) == [s EXCEPT !.status = "returned", !.pc = "end"]

\* the catch block of a scrapeUrl attempt: before the last attempt it
\* waits (the browser of the failed attempt is still open); on the last
\* the finally block runs, the loop ends and scrapeUrl throws
scrapeCatch(s) ==
    IF s.attempt < MAX_ATTEMPTS THEN [s EXCEPT !.pc = "backoff"]
    ELSE scrapeThrows(closeBrowser(s))

ScrapeInit ==
    \E operation \in {"scrapeUrl", "fetchPuppeteerArticleText"},
       validUrl \in BOOLEAN, enabled \in BOOLEAN :
        /\ operation = "scrapeUrl" => enabled
        /\ operation = "fetchPuppeteerArticleText" => validUrl
        /\ scrape = [status |-> "running", operation |-> operation, pc |-> "start",
                     validUrl |-> validUrl, enabled |-> enabled,
                     attempt |-> 0, browser |-> FALSE, open |-> 0, launched |-> 0]

\* scrapeUrl up to the first attempt: new URL(url)
scrapeUrl ==
    /\ scrape.status = "running" /\ scrape.pc = "start"
    /\ scrape.operation = "scrapeUrl"
    /\ scrape' = IF scrape.validUrl
                 THEN [scrape EXCEPT !.pc = "launch", !.attempt = 1]
                 ELSE scrapeThrows(scrape)
    /\ UNCHANGED <<nvars, pvars, rvars, tvars, ivars, dvars, val, pdf, db>>

\* an attempt up to the browser: delay, executablePath, puppeteer.launch
scrapeLaunch ==
    /\ scrape.status = "running" /\ scrape.pc = "launch"
    /\ \/ scrape' = scrapeCatch(scrape)
       \/ scrape' = [scrape EXCEPT !.pc = "navigate", !.browser = TRUE,
                                   !.open = @ + 1, !.launched = @ + 1]
    /\ UNCHANGED <<nvars, pvars, rvars, tvars, ivars, dvars, val, pdf, db>>

\* the attempt with its browser: newPage, goto, the 403 and empty-body
\* fallbacks; it returns a text (the finally block closes the browser) or
\* throws into the catch block
scrapeNavigate ==
    /\ scrape.status = "running" /\ scrape.pc = "navigate"
    /\ \/ scrape' = scrapeCatch(scrape)
       \/ scrape' = scrapeReturns(closeBrowser(scrape))
    /\ UNCHANGED <<nvars, pvars, rvars, tvars, ivars, dvars, val, pdf, db>>

\* the wait of the catch block ends: continue runs the finally block and
\* the next attempt starts with browser undefined
scrapeBackoff ==
    /\ scrape.status = "running" /\ scrape.pc = "backoff"
    /\ scrape' = [closeBrowser(scrape) EXCEPT !.pc = "launch", !.attempt = @ + 1]
    /\ UNCHANGED <<nvars, pvars, rvars, tvars, ivars, dvars, val, pdf, db>>

\* fetchPuppeteerArticleText up to launchBrowser: the ENABLE_PUPPETEER test
fetchPuppeteerArticleText ==
    /\ scrape.status = "running" /\ scrape.pc = "start"
    /\ scrape.operation = "fetchPuppeteerArticleText"
    /\ scrape' = IF scrape.enabled
                 THEN [scrape EXCEPT !.pc = "launchBrowser", !.attempt = 1]
                 ELSE scrapeThrows(scrape)
    /\ UNCHANGED <<nvars, pvars, rvars, tvars, ivars, dvars, val, pdf, db>>

\* launchBrowser, awaited before the try block
launchBrowser ==
    /\ scrape.status = "running" /\ scrape.pc = "launchBrowser"
    /\ \/ scrape' = scrapeThrows(scrape)
       \/ scrape' = [scrape EXCEPT !.pc = "article", !.browser = TRUE,
                                   !.open = @ + 1, !.launched = @ + 1]
    /\ UNCHANGED <<nvars, pvars, rvars, tvars, ivars, dvars, val, pdf, db>>

\* the try block: the page is loaded and read, or something throws; the
\* finally block closes the browser either way
puppeteerArticle ==
    /\ scrape.status = "running" /\ scrape.pc = "article"
    /\ \/ scrape' = scrapeThrows(closeBrowser(scrape))
       \/ scrape' = scrapeReturns(closeBrowser(scrape))
    /\ UNCHANGED <<nvars, pvars, rvars, tvars, ivars, dvars, val, pdf, db>>

WorkerInit ==
    /\ \/ PdfInit /\ ScrapeIdle
       \/ ScrapeInit /\ PdfIdle
    /\ NormIdle /\ PipelineIdle /\ RetryIdle /\ TempIdle /\ CallIdle /\ RouteIdle
    /\ ValidIdle /\ HistoryIdle

WorkerNext ==
    \/ extractTextFromPdf \/ extractTextFromPdfPipeline
    \/ ocrGetDocument \/ ocrCreateWorker \/ ocrInitialize \/ ocrPage \/ ocrReturns
    \/ scrapeUrl \/ scrapeLaunch \/ scrapeNavigate \/ scrapeBackoff
    \/ fetchPuppeteerArticleText \/ launchBrowser \/ puppeteerArticle

WorkerSpec == WorkerInit /\ [][WorkerNext]_vars

(***************************************************************************)
(* auditController.js: the AuditRecord collection as audits of several     *)
(* users fill it, and the two retrieval handlers.  req.user.id is the id   *)
(* the authentication middleware attached to the request.  A record's      *)
(* _id is its position in the collection; its auditResult names it.        *)
(***************************************************************************)
MaxRecords == 3

Users == {"u1", "u2"}
ReportOf(id) == [of |-> id]

\* the :id of a request: 0 is a string that is no ObjectId, the others
\* are ObjectIds, of a stored record or of none
RequestIds == 0..(MaxRecords + 1)
Limits == {1, 50}
Skips == {0, 1}

NoResponse == [route |-> "none", user |-> "", id |-> 0, code |-> 0, body |-> <<>>]
Response(route, user, id, code, body) ==
    [route |-> route, user |-> user, id |-> id, code |-> code, body |-> body]

Reverse(s) == [i \in 1..Len(s) |-> s[Len(s) + 1 - i]]

\* AuditRecord.find({userId}).sort({createdAt: -1}).limit(limit).skip(skip)
\* .select('auditResult'): the user's records, newest first, skip passed
\* over, then at most limit of them
find(records, userId, limit, skip) ==
    LET mine == Reverse(SelectSeq(records, LAMBDA r : r.userId = userId))
    IN SubSeq(mine, skip + 1, Min(Len(mine), skip + limit))

\* AuditRecord.findOne({_id: id, userId}): the records that match
findOne_AnyOwner(records, id, userId) ==
    {i \in 1..Len(records) : i = id}
findOne(records, id, userId) ==
    {i \in 1..Len(records) : i = id /\ records[i].userId = userId}

HistoryInit ==
    /\ db = [status |-> "running", records |-> <<>>, response |-> NoResponse]
    /\ NormIdle /\ PipelineIdle /\ RetryIdle /\ TempIdle /\ CallIdle /\ RouteIdle
    /\ ValidIdle /\ PdfIdle /\ ScrapeIdle

\* POST /audit by an authenticated user, at the end of processContent:
\* saveAuditRecord stores the report under the requester's userId
createAudit ==
    /\ db.status = "running" /\ Len(db.records) < MaxRecords
    /\ \E u \in Users :
          LET id == Len(db.records) + 1 IN
          db' = [db EXCEPT !.records = Append(@, [userId |-> u, auditResult |-> ReportOf(id)]),
                           !.response = Response("audit", u, id, 201, <<ReportOf(id)>>)]
    /\ UNCHANGED <<nvars, pvars, rvars, tvars, ivars, dvars, val, pdf, scrape>>

\* GET /audit/history
getAuditHistory ==
    /\ db.status = "running"
    /\ \E u \in Users, limit \in Limits, skip \in Skips :
          \/ LET audits == find(db.records, u, limit, skip)
                 results == [i \in 1..Len(audits) |-> audits[i].auditResult]
             IN db' = [db EXCEPT !.response = Response("history", u, 0, 200, results)]
          \/ db' = [db EXCEPT !.response = Response("history", u, 0, 500, <<>>)]
    /\ UNCHANGED <<nvars, pvars, rvars, tvars, ivars, dvars, val, pdf, scrape>>

\* GET /audit/:id
getAuditById ==
    /\ db.status = "running"
    /\ \E u \in Users, id \in RequestIds :
          \/ /\ id = 0
             /\ db' = [db EXCEPT !.response = Response("byId", u, id, 400, <<>>)]
          \/ /\ id # 0
             /\ LET audit == findOne(db.records, id, u) IN
                db' = [db EXCEPT !.response =
                          IF audit = {} THEN Response("byId", u, id, 404, <<>>)
                          ELSE Response("byId", u, id, 200,
                                        <<db.records[CHOOSE i \in audit : TRUE].auditResult>>)]
          \/ db' = [db EXCEPT !.response = Response("byId", u, id, 500, <<>>)]
    /\ UNCHANGED <<nvars, pvars, rvars, tvars, ivars, dvars, val, pdf, scrape>>

HistoryNext == createAudit \/ getAuditHistory \/ getAuditById

HistorySpec == HistoryInit /\ [][HistoryNext]_vars

(***************************************************************************)
(* Properties                                                              *)
(***************************************************************************)
Done == pc = "done"
ReturnedReport == outcome.t = "returned"

\* the score field of the schema the normalizer under test works on
ScoreIn(fn, x) == IF fn = "gemini" THEN x.score ELSE x.complianceScore

\* C1: when the reasoner call of an audit fails unrecoverably, the pipeline
\* does not throw: it returns a report shell with score 0, no violations,
\* modelUsed "none" and an error field.
C1_ReasonerFailureReturnsShell ==
    (Done /\ reasonerFailed /\ result = NotRun) =>
        /\ ReturnedReport
        /\ outcome.value.modelUsed = "none"
        /\ outcome.value.violations = VArray(<<>>)
        /\ outcome.value.error # ""
        /\ (outcome.value.score = Num(0) \/ outcome.value.complianceScore = Num(0))

\* C2: if AuditStore.Save fails after the reasoner produced a report, the
\* audit still returns that report to its caller.
C2_SaveFailureStillReturns ==
    (Done /\ saveFailed) => (ReturnedReport /\ outcome.value \in {result, normalizeGeminiResult(result)})

\* C3: every report produced by a normalizer whose violations list is empty
\* has status "Compliant" and score 0.
C3_EmptyViolationsCompliant ==
    (ny # NotRun /\ ~IsThrown(ny) /\ ny.violations.items = <<>>) =>
        (ny.status = "Compliant" /\ ScoreIn(nfn, ny) = Num(0))

\* C4: for every numeric score of the reasoner the normalized score is an
\* integer in [0,100]: round(100 x score) for a fraction in [0,1], the score
\* clamped to the nearest bound when it lies outside [0,100].
C4_ScoreNormalized ==
    (ny # NotRun /\ ~IsThrown(ny) /\ IsNum(ScoreIn(nfn, nx))) =>
        LET in == ScoreIn(nfn, nx).v
            out == ScoreIn(nfn, ny)
        IN /\ IsNum(out)
           /\ out.v % 100 = 0
           /\ out.v >= 0 /\ out.v <= Units(100)
           /\ (in >= 0 /\ in <= Units(1)) => out.v = Units(in)
           /\ in < 0 => out.v = 0
           /\ in > Units(100) => out.v = Units(100)

ListOfTwo(g) == g.k = "list" /\ Len(g.items) >= 2

\* C5: in every report an audit returns, each violation's guidance is a list
\* of at least 2 entries and so is its fix.
C5_GuidanceFixAtLeastTwo ==
    (Done /\ ReturnedReport /\ outcome.value.violations.k = "array") =>
        \A i \in 1..Len(outcome.value.violations.items) :
            /\ ListOfTwo(outcome.value.violations.items[i].guidance)
            /\ ListOfTwo(outcome.value.violations.items[i].fix)

\* C6: the report an audit returns is the normalizer's output for the
\* reasoner's result, the same report that is handed to AuditStore.Save.
C6_ReturnedIsNormalized ==
    (op = "processContent" /\ Done /\ ReturnedReport) =>
        /\ outcome.value = normalizeGeminiResult(result)
        /\ outcome.value = store[Len(store)]

\* C7: the report normalizer is idempotent on every output it accepts.
C7_NormalizerIdempotent ==
    nz # NotRun => nz = ny

ValidReport(fn, r) ==
    /\ IsObjectLike(r)
    /\ IsNum(ScoreIn(fn, r))
    /\ ScoreIn(fn, r).v % 100 = 0
    /\ ScoreIn(fn, r).v >= 0 /\ ScoreIn(fn, r).v <= Units(100)
    /\ r.violations.k = "array"

\* C8: for any value parsing can yield (object, array, null, number, string)
\* the normalizer returns a valid report and never throws.
C8_NormalizerTotal ==
    ny # NotRun => (~IsThrown(ny) /\ ValidReport(nfn, ny))

IsPrefix(a, b) == Len(a) <= Len(b) /\ \A i \in 1..Len(a) : a[i] = b[i]
WebPageOrder == extractionPlan \o <<"metadata">>
NotAccepted == {"ExtractFailed", "CleaningLoss", "TooShort"}

\* C9: for a web page the extractors are started one at a time in the order
\* reader proxy, readability, headless browser (if enabled), metadata; a
\* strategy is started only after every earlier one failed or gave cleaned
\* text shorter than 300 characters, and none after an accepted result.
C9_StrategiesInOrder ==
    (op = "processContent" /\ req.kind = "webpage") =>
        /\ IsPrefix(started, WebPageOrder)
        /\ \A i \in 1..(Len(started) - 1) :
              i <= Len(attempts) /\ attempts[i].outcome \in NotAccepted

\* C10: whenever the reasoner is called on the text of a web-page plan
\* strategy, len(cleaned) >= 0.60 x len(raw); an attempt whose cleaning
\* removed more than 40% of the raw text is abandoned as CleaningLoss and
\* the pipeline goes on to the next strategy.
C10_ContentLossGuard ==
    /\ (pc = "reasoner" /\ cur.method \in PlanMethods) =>
          10 * cur.cleanedLen >= 6 * cur.rawLen
    /\ (pc = "plan" /\ cur.method \in PlanMethods
        /\ 10 * (cur.rawLen - cur.cleanedLen) > 4 * cur.rawLen) =>
          /\ attempts[Len(attempts)] = Attempt(cur.method, "CleaningLoss")
          /\ planIdx = Len(started) + 1
          /\ extractionPlan[planIdx - 1] = cur.method

C10_Witness ==
    /\ pc = "reasoner" /\ cur.method = "readability"
    /\ cur.cleanedLen < cur.rawLen
    /\ 10 * cur.cleanedLen = 6 * cur.rawLen
    /\ Len(attempts) = 1 /\ attempts[1].outcome = "CleaningLoss"

\* the strategies of a URL kind's list that the environment enables
KindOrder ==
    IF req.kind = "webpage" THEN WebPageOrder
    ELSE IF ALLOW_AUDIO_DOWNLOAD THEN youtubeChain
    ELSE SubSeq(youtubeChain, 1, Len(youtubeChain) - 1)

\* every strategy of the list ran and none produced content
Exhausted ==
    /\ op = "processContent" /\ req.kind \in {"webpage", "youtube"}
    /\ Len(attempts) = Len(KindOrder)
    /\ \A i \in 1..Len(attempts) : attempts[i].outcome \in NotAccepted

\* C11: when all extraction strategies of a URL kind's list have failed to
\* produce content the audit ends with an extraction error; the reasoner is
\* not called and no audit record is saved.
C11_ExhaustedEndsWithoutReasoner ==
    Exhausted =>
        /\ calls = 0 /\ store = <<>>
        /\ pc \notin {"reasoner", "save"}
        /\ Done => IsThrown(outcome)

\* C12: within one audit request a failed reasoner call is not retried: a
\* reasoner failure is not an extraction failure, no strategy is started
\* after it and the reasoner is not called a second time.
C12_ReasonerNotRetried ==
    op = "processContent" =>
        /\ calls <= 1
        /\ \A i \in 1..Len(attempts) :
              attempts[i].outcome = "ReasonerFailed" => Len(started) <= i

\* the first pass gave no violations and a score of at least 90
FailSafeTrigger(r) ==
    r.violations.items = <<>> /\ r.complianceScore.v >= Units(FAILSAFE_SCORE)

\* what the fail-safe rerun returned, when it returned
RerunResult == ModelResult(normalizeResponse(result), TRUE)

\* C13: a successful first pass with violations = [] and score >= 90 is
\* rerun with the stronger instruction exactly once, never more than one
\* extra call per audit; the final result is the rerun's result if the rerun
\* found violations and the first-pass result otherwise.
C13_FailSafeRerunOnce ==
    op = "performAudit" =>
        /\ calls <= 2
        /\ pc = "failsafe" => (calls = 1 /\ FailSafeTrigger(firstPass))
        /\ (Done /\ calls = 1 /\ ReturnedReport /\ ~reasonerFailed) =>
              ~FailSafeTrigger(outcome.value)
        /\ (Done /\ firstPass # NotRun) =>
              /\ calls = 2
              /\ ReturnedReport
              /\ outcome.value =
                    IF ~reasonerFailed /\ RerunResult.violations.items # <<>>
                    THEN RerunResult ELSE firstPass

\* the primary call of an audit failed with an upstream error
PrimaryFailedUpstream ==
    /\ op = "performAudit" /\ Done /\ firstPass = NotRun
    /\ reasonerFailed /\ ReturnedReport
    /\ outcome.value.modelUsed = "none" => outcome.value.message = "upstream error"

\* C14: after the primary reasoner call failed with an upstream error the
\* fallback model is called, and if that call succeeds the returned report
\* has usedFallback = true, the fallback model's id as modelUsed and the
\* violations the fallback call found.
C14_FallbackReport ==
    PrimaryFailedUpstream =>
        /\ calls >= 2
        /\ outcome.value.modelUsed # "none" =>
              /\ outcome.value.usedFallback
              /\ outcome.value.modelUsed # "gemini-2.0-flash"
              /\ outcome.value.violations = normalizeResponse(result).violations

\* extractor i+1 was started only after extractor i failed to yield text
EachAfterFailure ==
    \A i \in 1..(Len(started) - 1) :
        i <= Len(attempts) /\ attempts[i] = Attempt(started[i], "ExtractFailed")

\* the extractor that yielded the text handed on, if one did
CaptionsYielded ==
    /\ pc \in {"reasoner", "save", "done"}
    /\ started # <<>> /\ started[1] = "captions" /\ attempts = <<>>

AudioGate == ("audio" \in {started[i] : i \in 1..Len(started)}) =>
                (~req.production \/ req.enableAudio)

RetryRunning == retry.status # "idle"

\* the parts of C20 that do not depend on the value thrown
RetryCallsAndWaits ==
    /\ retry.calls <= retry.attempts
    /\ retry.status = "returned" =>
          (retry.calls = Len(retry.failures) + 1 /\ retry.calls = retry.attempt)
    /\ Len(retry.waits) <= retry.attempts - 1
    /\ \A k \in 1..Len(retry.waits) :
          /\ k < retry.attempts
          /\ k <= Len(retry.failures)
          /\ retry.waits[k] = 800 * Pow(2, k - 1)
    /\ retry.status \in {"sleeping", "thrown"} =>
          Len(retry.waits) = IF retry.status = "thrown" THEN retry.attempts - 1
                             ELSE Len(retry.failures)
    /\ retry.status = "thrown" => retry.calls = retry.attempts

ClientError(e) == e.id = "HTTP 404"

\* C21: a call that fails with an HTTP 4xx response other than 429 is not
\* retried (it is the last call and no wait follows it), and a 429 that is
\* not the last permitted attempt is followed by one backoff wait.
C21_ClientErrorNotRetried ==
    RetryRunning =>
        \A k \in 1..Len(retry.failures) :
            /\ ClientError(retry.failures[k]) =>
                  (k = Len(retry.failures) /\ retry.status = "thrown" /\ Len(retry.waits) < k)
            /\ (retry.failures[k].id = "HTTP 429" /\ k < retry.attempts) =>
                  Len(retry.waits) >= k

\* C22: every external call of an audit is bounded by a deadline, so an
\* audit whose remote party never responds still ends, with a failure or a
\* fallback.
C22_AuditTerminates == <>(io.status \in {"done", "failed"})

\* C23: a media download that has not completed (headers and full body)
\* within 60 s of its start is aborted: no download is still in progress
\* after more than 60 s.
C23_DownloadAbortedAt60s ==
    (io.status = "calling" /\ io.call \in {"media_headers", "media_body"}) =>
        io.elapsed <= 60000

\* processContent has started on the input
Routed ==
    /\ disp.entry = "processContent"
    /\ disp.pc \notin {"upload", "start"} /\ disp.status # "refused"

\* C24: an audit invoked without a userId fails with the authentication
\* error before any classification, rule loading, extraction, reasoner
\* call or save has taken place.
C24_UnauthenticatedFailsFirst ==
    (Routed /\ ~disp.userId) =>
        /\ disp.status = "thrown" /\ disp.error = "Authentication required"
        /\ disp.trace = <<>> /\ disp.args = <<>> /\ disp.class = ""

C24_Witness ==
    /\ Routed /\ ~disp.userId /\ disp.input.kind = "url"
    /\ disp.status = "thrown" /\ disp.error = "Authentication required"

\* C25: every reasoner call of an audit receives the rule pack loaded for
\* the request together with its country and region, for every input kind.
C25_ReasonerGetsRules ==
    \A i \in 1..Len(disp.args) :
        /\ disp.args[i].rules = "pack"
        /\ disp.args[i].country = "given" /\ disp.args[i].region = "given"

\* the events a, b, c occur in the trace in that order
InOrder(a, b, c) ==
    \E i, j, k \in 1..Len(disp.trace) :
        /\ i < j /\ j < k
        /\ disp.trace[i] = a /\ disp.trace[j] = b /\ disp.trace[k] = c

\* the audit of a web page whose server answers 403 is over and had come
\* to its metadata stage
Forbidden403Over ==
    /\ disp.class = "webpage" /\ disp.serverStatus = 403 /\ HttpProtocol(disp.input.url)
    /\ disp.pc = "end"
    /\ \E i \in 1..Len(disp.trace) : disp.trace[i] = "metadata"

\* C26: for a URL whose server answers 403 the reader proxy, the local
\* readability fetch and the metadata extraction are attempted in that
\* order, the final extraction is the page metadata beginning with
\* "Title:", the reasoner runs on it with the best-effort context, and a
\* report is produced.
C26_Forbidden403Report ==
    Forbidden403Over =>
        /\ InOrder("jina_reader", "readability", "metadata")
        /\ disp.method = "metadata" /\ disp.title
        /\ disp.args # <<>>
        /\ disp.args[Len(disp.args)].contentContext =
               "Input is page metadata only. Provide best-effort compliance analysis."
        /\ disp.status = "returned"

\* the reasoner has just been called on disp.content
ReasonerJustCalled ==
    disp.trace # <<>> /\ disp.trace[Len(disp.trace)] = "analyzeWithGemini"

\* the text is Hindi or mixed whatever the classifier says
HindiOrMixed(t) ==
    \A franc \in FrancCodes : detectLanguage(t, franc).language \in {"hi", "mixed"}

\* the translator was invoked after the latest language detection
TranslatedAfterDetection ==
    \E i \in 1..Len(disp.trace) :
        /\ disp.trace[i] = "detectLanguage"
        /\ \A k \in (i + 1)..Len(disp.trace) : disp.trace[k] # "detectLanguage"
        /\ i < Len(disp.trace) /\ disp.trace[i + 1] = "translateToEnglish"

\* C27: for every input kind, when the text sent to the reasoner is hi or
\* mixed the translator was invoked on it after language detection and
\* before the reasoner call; when the detected language is anything else
\* the translator was not invoked.
C27_TranslatorIffHindi ==
    ReasonerJustCalled =>
        /\ HindiOrMixed(disp.content) => TranslatedAfterDetection
        /\ (disp.language # "" /\ disp.language \notin {"hi", "mixed"}) =>
              ~TranslatedAfterDetection

\* the host is youtube.com, youtu.be or m.youtube.com (www. included)
HostMatchesYouTube(host) ==
    host \in {<<"youtube.com">>, <<"www.", "youtube.com">>, <<"youtu.be">>,
              <<"m.", "youtube.com">>}

\* C28: a URL is classified YouTube if and only if its host matches
\* youtube.com, youtu.be or m.youtube.com, never because of its path or
\* query, and the same at every entry point.
C28_YouTubeIffHost ==
    disp.class # "" =>
        (disp.class = "youtube" <=> HostMatchesYouTube(disp.input.url.host))

\* C29: a URL input whose scheme is not http or https is rejected at
\* classification: once its entry point has acted the request has failed,
\* and no fetch, extraction or reasoner call is ever attempted for it.
C29_NonHttpRejected ==
    (disp.status # "idle" /\ disp.input.kind = "url" /\ disp.userId
        /\ disp.input.url.scheme \notin {"http", "https"} /\ disp.pc # "start") =>
        /\ disp.status = "thrown"
        /\ \A i \in 1..Len(disp.trace) :
              disp.trace[i] \in {"detectContentType", "getRulesForSelection"}

\* detectLanguage has been applied to disp.content
LanguageDetected == disp.language # ""

\* every character of the text that is not whitespace is Devanagari
Devanagari(t) == t.len > 0 /\ t.dev = t.len - t.ws

\* C30: a Hindi (Devanagari) text of 79 characters is tagged unknown, and
\* a Hindi text of 81 characters is passed to the language classifier.
C30_HindiLengthBoundary ==
    (LanguageDetected /\ Devanagari(disp.content)) =>
        /\ disp.content.len = 79 => disp.language = "unknown"
        /\ disp.content.len = 81 => disp.classifier

Finished(r) == reqs[r].pc = "finished"
TempRunning == reqs # <<>>

\* C16: on every code path that handles a YouTube URL no audio download is
\* performed in production unless the audio-download flag is enabled.
C16_AudioDownloadGated ==
    (TempRunning /\ env.production /\ ~env.enableAudio) =>
        \A r \in Requests :
            reqs[r].route \in {"transcript", "urlAuditYoutube"} => ~reqs[r].downloaded

\* C17: every temp file created for a request has been unlinked by the time
\* the request finishes, on the success path and on every failure path.
C17_TempFilesUnlinked ==
    TempRunning =>
        \A r \in Requests : Finished(r) => ~\E f \in files : f.owner = r

\* C18: concurrently running requests never share a temp file path, and no
\* request reads a file holding another request's data.
C18_NoSharedTempPath ==
    TempRunning =>
        /\ \A a, b \in Requests :
              (a # b /\ reqs[a].tempPath # NoPath /\ ~Finished(a) /\ ~Finished(b))
                  => reqs[a].tempPath # reqs[b].tempPath
        /\ \A r \in Requests : reqs[r].read \in {0, r}

\* C19: if a request's audio download was aborted by its deadline, then once
\* the request has finished its download subprocess is stopped and no temp
\* file of the request is on disk.
C19_AbortLeavesNothing ==
    TempRunning =>
        \A r \in Requests :
            (Finished(r) /\ reqs[r].aborted) =>
                /\ ~\E p \in procs : p.req = r
                /\ ~\E f \in files : f.owner = r

\* the fail-safe rerun of an audit failed after a successful first pass
RerunFailed ==
    /\ op = "performAudit" /\ Done
    /\ firstPass # NotRun /\ calls = 2 /\ reasonerFailed

\* C34: if the fail-safe rerun itself fails (timeout, empty or unparsable
\* response) after a successful first pass, the audit still returns the
\* first-pass result rather than an error result.
C34_RerunFailureKeepsFirstPass ==
    RerunFailed =>
        /\ ReturnedReport
        /\ outcome.value = firstPass
        /\ outcome.value.error = EmptyObject.error

\* the input is an uploaded file that processContent has started on
FileReachedPipeline == Routed /\ disp.userId /\ disp.input.kind = "file"

\* C36: every uploaded file that the upload filter accepts has a MIME type
\* that the pipeline's classifier maps to a kind; a file whose MIME type the
\* classifier cannot classify is refused by the filter and never reaches
\* the pipeline.
C36_FilterAgreesWithClassifier ==
    /\ FileReachedPipeline => ~IsThrown(detectContentType(disp.input))
    /\ (disp.input.kind = "file" /\ disp.pc # "upload"
           /\ IsThrown(detectContentType(disp.input))) =>
          (disp.status = "refused" /\ disp.trace = <<>>)

\* the reasoner was just called in the plan loop of a web-page audit for
\* which translateToEnglish returned a text
TranslationProduced ==
    /\ ReasonerJustCalled /\ disp.method \in PlanMethods
    /\ disp.translated > 0

\* C35: when a translation was produced for a web-page audit, the text sent
\* to the reasoner after the truncations to 12,000 and to 10,000 characters
\* still contains translated text, for every cleaned-text length of 300
\* characters or more.
C35_TranslationReachesReasoner ==
    (TranslationProduced /\ disp.content.len >= 300) =>
        TranslatedKept(disp.sent) > 0

\* the lines of the validated text that are not empty
NonEmptyLines == SelectSeq(val.text.lines, LAMBDA l : l.chars > 0)

\* heading-like: at most 6 words, or at least 6 characters all upper case,
\* or starting with '#', or ending with ':'
HeadingLikeShare ==
    CountLines(NonEmptyLines,
               LAMBDA l : l.words <= 6 \/ (l.chars >= 6 /\ l.upper) \/ l.marker)

LongShare == CountLines(NonEmptyLines, LAMBDA l : l.words >= 12)

\* C31: for a text with at least one non-empty line, the validator reports
\* headingHeavy = true exactly when at least 70% of the non-empty lines are
\* heading-like and fewer than 25% of them have 12 or more words.
C31_HeadingHeavyAt70 ==
    (val.status = "validated" /\ NonEmptyLines # <<>>) =>
        (val.result.headingHeavy <=>
            /\ HeadingLikeShare * 100 >= 70 * Len(NonEmptyLines)
            /\ LongShare * 100 < 25 * Len(NonEmptyLines))

\* the PDF pipeline has read the embedded text
PdfParsed == pdf.status # "idle" /\ (pdf.ocr \/ pdf.text.kind = "embedded")
\* ocrPdfWithTesseract has returned its text
OcrCompleted == pdf.status = "returned" /\ pdf.ocr

\* C32: for a PDF, OCR is run if and only if the embedded text has fewer
\* than 500 characters (499 characters triggers OCR, 500 does not), and an
\* OCR that runs to its end has processed exactly min(pageCount, 25) pages,
\* never more on the way.
C32_OcrBelow500UpTo25Pages ==
    /\ PdfParsed => (pdf.ocr <=> pdf.embedded < 500)
    /\ pdf.status # "idle" =>
          /\ pdf.pageIndex - 1 <= Min(pdf.pages, 25)
          /\ OcrCompleted => pdf.pageIndex - 1 = Min(pdf.pages, 25)

C32_Witness ==
    /\ OcrCompleted /\ pdf.embedded = 499
    /\ pdf.pages = MaxPdfPages /\ pdf.pageIndex - 1 = 25

\* C37: the PDF text pipeline never returns less text than the embedded
\* text it already extracted: when the embedded text is shorter than 500
\* characters and OCR yields less text (or none), the embedded text is
\* still what is audited.
C37_EmbeddedTextKept ==
    (pdf.status = "returned" /\ pdf.ocr /\ pdf.ocrLen < pdf.embedded) =>
        pdf.text = PdfText("embedded", pdf.embedded)

\* C38: every headless browser and OCR worker started by an operation has
\* been closed or terminated when the operation returns or throws, and
\* across the attempts of a scrape at most one browser is open at a time.
C38_HelpersReleased ==
    /\ scrape.status \in {"returned", "thrown"} => scrape.open = 0
    /\ scrape.status # "idle" => scrape.open <= 1
    /\ pdf.status \in {"returned", "thrown"} => pdf.worker # "running"

C38_Witness ==
    /\ scrape.status = "returned" /\ scrape.operation = "scrapeUrl"
    /\ scrape.attempt = 3 /\ scrape.launched = 3 /\ scrape.open = 0

\* the reports in the latest answer to a retrieval request
Retrieved ==
    IF db.status = "idle" \/ db.response.route \notin {"history", "byId"} THEN {}
    ELSE {db.response.body[i] : i \in 1..Len(db.response.body)}

\* the stored records that belong to someone else than the requester
OthersRecords ==
    {i \in 1..Len(db.records) : db.records[i].userId # db.response.user}

\* C33: history and get-by-id retrieval return only audit records whose
\* userId equals the authenticated requester's id; a request for an audit
\* id owned by another user is answered 404 (500 if the store fails) and
\* never with that record's report.
C33_OnlyOwnRecords ==
    db.status # "idle" =>
        /\ \A i \in OthersRecords : ReportOf(i) \notin Retrieved
        /\ (db.response.route = "byId" /\ db.response.id \in OthersRecords) =>
              (db.response.code \in {404, 500} /\ db.response.body = <<>>)
        /\ (db.response.route = "byId" /\ db.response.code = 200) =>
              db.response.body = <<ReportOf(db.response.id)>>

C33_Witness ==
    /\ db.status = "running" /\ db.response.route = "byId"
    /\ db.response.id \in OthersRecords /\ db.response.code = 404
    /\ \E i \in 1..Len(db.records) : db.records[i].userId = db.response.user

====
